---------------------------- MODULE Spec2Model ----------------------------
(***************************************************************************)
(* A model of the classification engine of devops-toolkit: the rules that  *)
(* turn provider records (disruption budgets, certificates, instances,     *)
(* volumes, snapshots, security-group rules, buckets) into findings.       *)
(*                                                                         *)
(* Every handler is modelled as one action that draws the records and the  *)
(* collaborator responses it reads, runs the handler as the code does and  *)
(* leaves the arguments and the result in the state.  The handlers of one  *)
(* package do not share state with those of another, so each group has its *)
(* own specification (SpecPDB, SpecCert, ...).  A run of the tool makes    *)
(* one pass, so a handler is called once per behaviour.                    *)
(*                                                                         *)
(* Units: CPU utilisation is a rational [num, den] in percent; money is an *)
(* integer number of thousandths of a dollar (0.125 $/GB = 125).           *)
(***************************************************************************)
EXTENDS Integers, Sequences, FiniteSets, TLC

VARIABLES
    \* pkg/k8s/pdb.go
    pdbPc,          \* "idle" before the first analyzePDB call, then "done"
    pdb,            \* the status block of the budget handed to analyzePDB
    pdbInfo,        \* the PDBInfo analyzePDB returned
    \* pkg/k8s certificates
    certCalls,      \* how many getCertificateStatus calls were made (two are compared)
    daysRemaining,  \* the argument of the last getCertificateStatus call
    certStatus,     \* its result
    prevDays,       \* the argument of the call before it
    prevStatus,     \* and that call's result
    \* pkg/aws underutilized instances
    scanKind,       \* "idle", or the scan that ran last: "ec2" or "rds"
    scanned,        \* the instances that scan listed, with their metric answers
    scanResult,     \* what it returned, and the warnings it printed
    \* pkg/aws/security.go
    sgPc,           \* "idle" before evaluateSecurityGroupRule ran, then "done"
    ingressRule,    \* the ingress rule (IpPermission) it was given
    sgFindings,     \* the findings it returned
    sevPc,          \* "idle" before GetPortSeverity was called, then "done"
    sevPort,        \* its argument
    sevResult,      \* its result
    s3Pc,           \* CheckPublicS3Buckets: "idle", "loop" or "done"
    s3Region,       \* the region of the SecurityAuditor
    s3Buckets,      \* how many buckets ListBuckets returned (named 1..n)
    s3Idx,          \* how many of them the loop has visited
    s3Location,     \* GetBucketLocation's answer for the bucket visited last
    s3Pab,          \* GetPublicAccessBlock's answer for it, if it was asked
    s3Acl,          \* GetBucketAcl's answer for it, if it was asked
    publicBuckets,  \* the findings appended so far
    s3Err,          \* the error CheckPublicS3Buckets returned, "" for none
    \* pkg/aws/auditor.go volumes and snapshots
    ebsOp,          \* "idle", or the handler that ran: "volumes" or "snapshots"
    ebsVolumes,     \* the volumes of the region (for snapshots: the ids listed)
    ebsSnapshots,   \* the snapshots DescribeSnapshots listed
    ebsResult,      \* the findings returned and the error, "" for none
    \* pkg/aws cost estimators called on their own
    estPc,          \* "idle" before an estimator was called directly, then "done"
    estFn,          \* the estimator called: "ec2" or "rds"
    estKey,         \* its argument
    estCost,        \* its result, in thousandths of a dollar
    \* cmd/aws.go runAWSAudit, pkg/aws AuditResults
    auditPc,        \* "idle", "loop" (scanning regions), "calculated",
                    \* "rendered", "done", "failed", or
                    \* "built" (an AuditResults literal, as the tests build it)
    auditRegions,   \* the parsed region list
    auditWorld,     \* what each listed region's APIs answer during this run
    auditInclude,   \* the --ebs, --ec2, --snapshots, --eips, --rds flags
    auditIdx,       \* how many regions the loop has visited
    allResults,     \* the AuditResults being aggregated
    auditErr,       \* the error runAWSAudit returned: what failed, in which region
    outputFormat,   \* --format, read when the report is rendered
    slackWebhook,   \* whether --slack-webhook is set
    alertThreshold, \* --alert-threshold, thousandths of a dollar
    auditRendered,  \* the report was rendered
    auditAlerted,   \* SendAlert was called
    calcCalls,      \* how many times CalculateSavings ran on allResults
    \* pkg/aws/cost.go
    costPc,         \* "idle", "fetched" (GetCostAndUsage returned), "failed",
                    \* "limited" (LimitToTopN returned) or "panicked"
    costResponse,   \* the ResultsByTime Cost Explorer answered
    costResults,    \* the CostResults
    itemsBefore,    \* Items as the last LimitToTopN call found them
    topN,           \* the argument of the last LimitToTopN call
    limitCalls,     \* how many LimitToTopN calls were made
    \* pkg/aws/security.go SecurityResults
    countPc,        \* "idle", "built" (a SecurityResults exists) or "counted"
    secResults,     \* the SecurityResults
    counts,         \* the map CountBySeverity returned
    \* pkg/k8s/pdb.go CheckPDBStatus
    pdbScanPc,      \* "idle" before CheckPDBStatus ran, then "done" or "failed"
    pdbItems,       \* the status blocks of the budgets the API listed
    pdbResults,     \* the PDBResults returned
    \* pkg/k8s CheckCertificateExpiry
    certScanPc,     \* "idle" before CheckCertificateExpiry ran, then "done" or "failed"
    secrets,        \* the secrets the API listed
    expiryDays,     \* the threshold given
    certResults,    \* the CertificateResults returned
    certWarnings,   \* the secrets (by position) a warning was printed for
    \* cmd/aws.go runAWSSecurity
    secRunPc,       \* "idle" before runAWSSecurity ran, then "done" or "failed"
    secChecks,      \* what NewSecurityAuditor and the two checks answer
    secWebhook,     \* --slack-webhook given
    secRun,         \* the results held, warnings and summary printed, alert, error
    \* cmd/k8s.go runK8sHealth
    healthPc,       \* "idle" before runK8sHealth ran, then "done" or "failed"
    healthFlags,    \* namespace, allNamespaces, checkNodes, format as parsed
    healthFailure,  \* the call of the run that fails, "" for none
    healthCalls,    \* the listings requested, in order, each with its namespace
    healthErr,      \* the error returned, "" for none
    \* cmd/k8s.go runK8sCerts, after the scan
    certWebhook,    \* --slack-webhook given
    certReported,   \* the results were displayed
    certAlerted     \* the Slack alert was sent

pdbVars  == <<pdbPc, pdb, pdbInfo>>
certVars == <<certCalls, daysRemaining, certStatus, prevDays, prevStatus>>
utilVars == <<scanKind, scanned, scanResult>>
sgVars   == <<sgPc, ingressRule, sgFindings>>
sevVars  == <<sevPc, sevPort, sevResult>>
s3Vars   == <<s3Pc, s3Region, s3Buckets, s3Idx, s3Location, s3Pab, s3Acl,
              publicBuckets, s3Err>>
ebsVars  == <<ebsOp, ebsVolumes, ebsSnapshots, ebsResult>>
estVars  == <<estPc, estFn, estKey, estCost>>
auditVars == <<auditPc, auditRegions, auditWorld, auditInclude, auditIdx,
               allResults, auditErr, outputFormat, slackWebhook,
               alertThreshold, auditRendered, auditAlerted, calcCalls>>
costVars == <<costPc, costResponse, costResults, itemsBefore, topN, limitCalls>>
countVars == <<countPc, secResults, counts>>
pdbScanVars == <<pdbScanPc, pdbItems, pdbResults>>
certScanVars == <<certScanPc, secrets, expiryDays, certResults, certWarnings,
                  certWebhook, certReported, certAlerted>>
secRunVars == <<secRunPc, secChecks, secWebhook, secRun>>
healthVars == <<healthPc, healthFlags, healthFailure, healthCalls, healthErr>>
vars     == <<pdbVars, certVars, utilVars, sgVars, sevVars, s3Vars, ebsVars,
              estVars,
              auditVars,
              costVars,
              countVars,
              pdbScanVars,
              certScanVars,
              secRunVars,
              healthVars>>

\* Before the first call a variable holds the zero value of its Go type.

(***************************************************************************)
(* Helpers on sequences.                                                   *)
(***************************************************************************)
SeqsUpTo(S, n) == UNION {[1..k -> S] : k \in 0..n}

RECURSIVE Concat(_)
Concat(ss) == IF ss = <<>> THEN <<>> ELSE Head(ss) \o Concat(Tail(ss))

RECURSIVE SumSeq(_)
SumSeq(s) == IF s = <<>> THEN 0 ELSE Head(s) + SumSeq(Tail(s))

(***************************************************************************)
(* pkg/k8s/pdb.go: analyzePDB                                              *)
(***************************************************************************)
MaxPods == 3

PDBStatusBlocks ==
    [CurrentHealthy     : 0..MaxPods,
     DesiredHealthy     : 0..MaxPods,
     DisruptionsAllowed : 0..MaxPods,
     ExpectedPods       : 0..MaxPods]

\* A mutant: the zero-disruption branch is tested before the no-pods branch.
analyzePDBZeroFirst(p) ==
    IF p.DisruptionsAllowed = 0
    THEN IF p.CurrentHealthy < p.DesiredHealthy
         THEN p @@ [Status |-> "critical",
                    StatusMessage |-> <<"Zero disruptions allowed and unhealthy pods">>]
         ELSE p @@ [Status |-> "at-risk",
                    StatusMessage |-> <<"Zero disruptions allowed">>]
    ELSE IF p.ExpectedPods = 0 \/ p.CurrentHealthy = 0
    THEN p @@ [Status |-> "no-pods", StatusMessage |-> <<"No matching pods found">>]
    ELSE IF p.CurrentHealthy < p.DesiredHealthy
    THEN p @@ [Status |-> "at-risk",
               StatusMessage |-> <<"Unhealthy pods: %d/%d", p.CurrentHealthy, p.DesiredHealthy>>]
    ELSE p @@ [Status |-> "healthy",
               StatusMessage |-> <<"%d disruption(s) allowed", p.DisruptionsAllowed>>]

\* The counters are copied into the PDBInfo, then the if / else-if chain of
\* lines 95-112 sets Status and StatusMessage (a format string and its
\* arguments).
analyzePDB(p) ==
    IF p.ExpectedPods = 0 \/ p.CurrentHealthy = 0
    THEN p @@ [Status |-> "no-pods", StatusMessage |-> <<"No matching pods found">>]
    ELSE IF p.DisruptionsAllowed = 0
    THEN IF p.CurrentHealthy < p.DesiredHealthy
         THEN p @@ [Status |-> "critical",
                    StatusMessage |-> <<"Zero disruptions allowed and unhealthy pods">>]
         ELSE p @@ [Status |-> "at-risk",
                    StatusMessage |-> <<"Zero disruptions allowed">>]
    ELSE IF p.CurrentHealthy < p.DesiredHealthy
    THEN p @@ [Status |-> "at-risk",
               StatusMessage |-> <<"Unhealthy pods: %d/%d", p.CurrentHealthy, p.DesiredHealthy>>]
    ELSE p @@ [Status |-> "healthy",
               StatusMessage |-> <<"%d disruption(s) allowed", p.DisruptionsAllowed>>]

ZeroStatusBlock ==
    [CurrentHealthy |-> 0, DesiredHealthy |-> 0, DisruptionsAllowed |-> 0,
     ExpectedPods |-> 0]

PDBIdle ==
    /\ pdbPc = "idle"
    /\ pdb = ZeroStatusBlock
    /\ pdbInfo = ZeroStatusBlock @@ [Status |-> "", StatusMessage |-> <<>>]

AnalyzePDB ==
    /\ pdbPc = "idle"
    /\ \E p \in PDBStatusBlocks :
        /\ pdbPc' = "done"
        /\ pdb' = p
        /\ pdbInfo' = analyzePDB(p)
        /\ UNCHANGED <<certVars, utilVars, sgVars, sevVars, s3Vars, ebsVars, estVars, auditVars, costVars, countVars, pdbScanVars, certScanVars, secRunVars, healthVars>>

(***************************************************************************)
(* pkg/k8s certificates: getCertificateStatus                              *)
(***************************************************************************)
MaxDays == 45

DayRange == (0 - MaxDays)..MaxDays

\* A mutant: the bands are closed on the right (7 is still critical, 30 is
\* still expiring-soon).
getCertificateStatusInclusive(d) ==
    IF d < 0 THEN "expired"
    ELSE IF d <= 7 THEN "critical"
    ELSE IF d <= 30 THEN "expiring-soon"
    ELSE "valid"

getCertificateStatus(d) ==
    IF d < 0 THEN "expired"
    ELSE IF d < 7 THEN "critical"
    ELSE IF d < 30 THEN "expiring-soon"
    ELSE "valid"

CertIdle ==
    /\ certCalls = 0
    /\ daysRemaining = 0 /\ certStatus = ""
    /\ prevDays = 0 /\ prevStatus = ""

GetCertificateStatus ==
    /\ certCalls < 2
    /\ \E d \in DayRange :
        /\ certCalls' = certCalls + 1
        /\ prevDays' = daysRemaining
        /\ prevStatus' = certStatus
        /\ daysRemaining' = d
        /\ certStatus' = getCertificateStatus(d)
        /\ UNCHANGED <<pdbVars, utilVars, sgVars, sevVars, s3Vars, ebsVars, estVars, auditVars, costVars, countVars, pdbScanVars, certScanVars, secRunVars, healthVars>>

(***************************************************************************)
(* pkg/aws/auditor.go, pkg/aws/cost.go: underutilized instances            *)
(***************************************************************************)
MaxInstances == 2
MaxDatapoints == 2

\* Hourly CPU averages, in percent, around the two thresholds.
CPUValues == {0, 5, 10}

\* A rational number num/den with den > 0, standing for a float64.
Rat(n, d) == [num |-> n, den |-> d]
RatLess(a, k) == a.num < k * a.den
RatAtLeast(a, k) == a.num >= k * a.den

\* What GetMetricStatistics answers for one instance: an error (access,
\* network, throttling) or the datapoints of the last 7 days, possibly none.
MetricResponses ==
    {[err |-> TRUE, Datapoints |-> <<>>]} \cup
    {[err |-> FALSE, Datapoints |-> dps] : dps \in SeqsUpTo(CPUValues, MaxDatapoints)}

InstanceTypes == {"t3.micro", "z9.unlisted"}
DBInstanceClasses == {"db.t3.micro", "db.z9.unlisted"}

\* The running instances DescribeInstances lists (the reservations flattened
\* in the order the nested loops visit them), each with the answer the
\* metric source gives for it; an instance's id is its position.
EC2Instances == [InstanceType : InstanceTypes, cpu : MetricResponses]
DBInstances == [DBInstanceClass : DBInstanceClasses, cpu : MetricResponses]

\* Monthly prices in thousandths of a dollar.
EC2Costs ==
    [t \in {"t2.micro", "t2.small", "t2.medium", "t3.micro", "t3.small",
            "t3.medium", "m5.large", "m5.xlarge"} |->
        CASE t = "t2.micro" -> 10000
          [] t = "t2.small" -> 20000
          [] t = "t2.medium" -> 40000
          [] t = "t3.micro" -> 9000
          [] t = "t3.small" -> 18000
          [] t = "t3.medium" -> 36000
          [] t = "m5.large" -> 88000
          [] t = "m5.xlarge" -> 176000]

\* A mutant: the lookup without the default, Go's zero value for a missing key.
estimateEC2CostNoDefault(instanceType) ==
    IF instanceType \in DOMAIN EC2Costs THEN EC2Costs[instanceType] ELSE 0

estimateEC2Cost(instanceType) ==
    IF instanceType \in DOMAIN EC2Costs THEN EC2Costs[instanceType] ELSE 100000

RDSCosts ==
    [c \in {"db.t3.micro", "db.t3.small", "db.m5.large"} |->
        CASE c = "db.t3.micro" -> 15000
          [] c = "db.t3.small" -> 30000
          [] c = "db.m5.large" -> 145000]

estimateRDSCost(instanceClass) ==
    IF instanceClass \in DOMAIN RDSCosts THEN RDSCosts[instanceClass] ELSE 100000

\* A mutant: no datapoints is answered as an average of 0 without an error.
getInstanceCPUUtilizationZeroOnEmpty(resp) ==
    IF resp.err THEN [val |-> Rat(0, 1), err |-> "GetMetricStatistics failed"]
    ELSE IF Len(resp.Datapoints) = 0 THEN [val |-> Rat(0, 1), err |-> ""]
    ELSE [val |-> Rat(SumSeq(resp.Datapoints), Len(resp.Datapoints)), err |-> ""]

\* (value, error): the error of the metric source, the error "no datapoints
\* found", or the mean of the datapoints.
getInstanceCPUUtilization(resp) ==
    IF resp.err THEN [val |-> Rat(0, 1), err |-> "GetMetricStatistics failed"]
    ELSE IF Len(resp.Datapoints) = 0
    THEN [val |-> Rat(0, 1), err |-> "no datapoints found"]
    ELSE [val |-> Rat(SumSeq(resp.Datapoints), Len(resp.Datapoints)), err |-> ""]

getRDSCPUUtilization(resp) ==
    IF resp.err THEN [val |-> Rat(0, 1), err |-> "GetMetricStatistics failed"]
    ELSE IF Len(resp.Datapoints) = 0
    THEN [val |-> Rat(0, 1), err |-> "no datapoints found"]
    ELSE [val |-> Rat(SumSeq(resp.Datapoints), Len(resp.Datapoints)), err |-> ""]

\* if avgCPU >= 0 && avgCPU < 5.0
EC2Flagged(avgCPU) == RatAtLeast(avgCPU, 0) /\ RatLess(avgCPU, 5)

\* A mutant: the database threshold is inclusive.
RDSFlaggedInclusive(avgCPU) == RatAtLeast(avgCPU, 0) /\ avgCPU.num <= 10 * avgCPU.den

\* if avgCPU >= 0 && avgCPU < 10.0
RDSFlagged(avgCPU) == RatAtLeast(avgCPU, 0) /\ RatLess(avgCPU, 10)

\* A mutant: the error is ignored and avgCPU stays at the 0 the call returned.
AvgOrUnknownKeepsZero(r) == r.val

\* avgCPU after the error check of the loop body: -1.0 when the metric call
\* failed or found no datapoints.
AvgOrUnknown(r) == IF r.err # "" THEN Rat(0 - 1, 1) ELSE r.val

\* The loop of FindUnderutilizedInstances over instances[i..]: the findings
\* appended and the warnings printed, in order.
RECURSIVE EC2Loop(_, _)
EC2Loop(instances, i) ==
    IF i > Len(instances) THEN [found |-> <<>>, warnings |-> <<>>]
    ELSE LET r == getInstanceCPUUtilization(instances[i].cpu)
             avgCPU == AvgOrUnknown(r)
             rest == EC2Loop(instances, i + 1)
         IN  [found |->
                 (IF EC2Flagged(avgCPU)
                  THEN <<[InstanceID |-> i,
                          InstanceType |-> instances[i].InstanceType,
                          AvgCPUUtilization |-> avgCPU,
                          MonthlyCost |-> estimateEC2Cost(instances[i].InstanceType)]>>
                  ELSE <<>>) \o rest.found,
              warnings |-> (IF r.err # "" THEN <<i>> ELSE <<>>) \o rest.warnings]

\* listErr: DescribeInstances failed.
FindUnderutilizedInstances(listErr, instances) ==
    IF listErr
    THEN [instances |-> <<>>, warnings |-> <<>>, err |-> "failed to describe instances"]
    ELSE LET l == EC2Loop(instances, 1)
         IN  [instances |-> l.found, warnings |-> l.warnings, err |-> ""]

RECURSIVE RDSLoop(_, _)
RDSLoop(dbInstances, i) ==
    IF i > Len(dbInstances) THEN [found |-> <<>>, warnings |-> <<>>]
    ELSE LET r == getRDSCPUUtilization(dbInstances[i].cpu)
             avgCPU == AvgOrUnknown(r)
             rest == RDSLoop(dbInstances, i + 1)
         IN  [found |->
                 (IF RDSFlagged(avgCPU)
                  THEN <<[InstanceID |-> i,
                          InstanceClass |-> dbInstances[i].DBInstanceClass,
                          AvgCPUUtilization |-> avgCPU,
                          MonthlyCost |-> estimateRDSCost(dbInstances[i].DBInstanceClass)]>>
                  ELSE <<>>) \o rest.found,
              warnings |-> (IF r.err # "" THEN <<i>> ELSE <<>>) \o rest.warnings]

\* listErr: DescribeDBInstances failed.
FindUnderutilizedRDS(listErr, dbInstances) ==
    IF listErr
    THEN [instances |-> <<>>, warnings |-> <<>>, err |-> "failed to describe RDS instances"]
    ELSE LET l == RDSLoop(dbInstances, 1)
         IN  [instances |-> l.found, warnings |-> l.warnings, err |-> ""]

UtilIdle ==
    /\ scanKind = "idle"
    /\ scanned = <<>>
    /\ scanResult = [instances |-> <<>>, warnings |-> <<>>, err |-> ""]

CallFindUnderutilizedInstances ==
    /\ scanKind = "idle" /\ estPc = "idle"
    /\ \E listErr \in BOOLEAN :
      \E instances \in (IF listErr THEN {<<>>} ELSE SeqsUpTo(EC2Instances, MaxInstances)) :
        /\ scanKind' = "ec2"
        /\ scanned' = instances
        /\ scanResult' = FindUnderutilizedInstances(listErr, instances)
        /\ UNCHANGED <<pdbVars, certVars, sgVars, sevVars, s3Vars, ebsVars, estVars, auditVars, costVars, countVars, pdbScanVars, certScanVars, secRunVars, healthVars>>

CallFindUnderutilizedRDS ==
    /\ scanKind = "idle" /\ estPc = "idle"
    /\ \E listErr \in BOOLEAN :
      \E dbInstances \in (IF listErr THEN {<<>>} ELSE SeqsUpTo(DBInstances, MaxInstances)) :
        /\ scanKind' = "rds"
        /\ scanned' = dbInstances
        /\ scanResult' = FindUnderutilizedRDS(listErr, dbInstances)
        /\ UNCHANGED <<pdbVars, certVars, sgVars, sevVars, s3Vars, ebsVars, estVars, auditVars, costVars, countVars, pdbScanVars, certScanVars, secRunVars, healthVars>>

(***************************************************************************)
(* pkg/aws/security.go: security-group rules                               *)
(***************************************************************************)
MaxRanges == 1

\* var RiskyPorts = map[int32]string{...}
RiskyPorts ==
    [p \in {22, 3389, 3306, 5432, 27017} |->
        CASE p = 22 -> "SSH"
          [] p = 3389 -> "RDP"
          [] p = 3306 -> "MySQL"
          [] p = 5432 -> "PostgreSQL"
          [] p = 27017 -> "MongoDB"]

\* The orders in which `for port := range RiskyPorts` can visit the map.  Go
\* leaves the order of a map iteration unspecified; the runtime starts the
\* walk over the slots of this 5-entry map at a random slot and wraps
\* around, so a walk is a rotation of the order of the literal.
RiskyPortsLiteralOrder == <<22, 3389, 3306, 5432, 27017>>

Rotate(s, k) == [i \in 1..Len(s) |-> s[((i + k - 1) % Len(s)) + 1]]

MapIterationOrders == {Rotate(RiskyPortsLiteralOrder, k) : k \in 0..4}

\* aws.ToBool, aws.ToString on a pointer: "nil" stands for the nil pointer.
awsToBool(b) == b = "true"
awsToString(str) == IF str = "nil" THEN "" ELSE str

IsPublicCIDR(cidr) == cidr = "0.0.0.0/0" \/ cidr = "::/0"

IsPortInRange(port, fromPort, toPort) ==
    IF fromPort = 0 /\ toPort = 0 THEN FALSE
    ELSE port >= fromPort /\ port <= toPort

\* A mutant: the database ports are only high.
GetPortSeverityDatabasesHigh(port) ==
    IF port \in {22, 3389} THEN "critical" ELSE "high"

GetPortSeverity(port) ==
    IF port \in {22, 3389} THEN "critical"
    ELSE IF port \in {3306, 5432, 27017} THEN "critical"
    ELSE "high"

IsRiskyPort(port) == port \in DOMAIN RiskyPorts

normalizeProtocol(protocol) ==
    IF protocol \in {"6", "tcp"} THEN "TCP"
    ELSE IF protocol \in {"17", "udp"} THEN "UDP"
    ELSE IF protocol = "-1" THEN "ALL"
    ELSE protocol

OpenSecurityGroup(groupID, groupName, port, protocol, source) ==
    [GroupID |-> groupID, GroupName |-> groupName, Port |-> port,
     Protocol |-> protocol, Source |-> source, Severity |-> GetPortSeverity(port)]

\* The findings appended while the map is walked in the given order.
RECURSIVE AllTrafficFindings(_, _, _, _)
AllTrafficFindings(order, source, groupID, groupName) ==
    IF order = <<>> THEN <<>>
    ELSE <<OpenSecurityGroup(groupID, groupName, Head(order), "ALL", source)>>
         \o AllTrafficFindings(Tail(order), source, groupID, groupName)

RECURSIVE RangeFindings(_, _, _, _, _, _, _)
RangeFindings(order, fromPort, toPort, protocol, source, groupID, groupName) ==
    IF order = <<>> THEN <<>>
    ELSE (IF IsPortInRange(Head(order), fromPort, toPort)
          THEN <<OpenSecurityGroup(groupID, groupName, Head(order),
                                   normalizeProtocol(protocol), source)>>
          ELSE <<>>)
         \o RangeFindings(Tail(order), fromPort, toPort, protocol, source,
                          groupID, groupName)

\* A mutant: the all-traffic rule goes through the port-range test as well.
checkPortRangeNoSentinel(fromPort, toPort, protocol, source, groupID, groupName, order) ==
    RangeFindings(order, fromPort, toPort, protocol, source, groupID, groupName)

\* order: the order in which this call's range loop visits RiskyPorts.
checkPortRange(fromPort, toPort, protocol, source, groupID, groupName, order) ==
    IF protocol = "-1"
    THEN AllTrafficFindings(order, source, groupID, groupName)
    ELSE RangeFindings(order, fromPort, toPort, protocol, source, groupID, groupName)

\* The public ranges of a rule in the order the two loops visit them: the
\* IPv4 ranges, then the IPv6 ranges.
PublicRanges(permission) ==
    SelectSeq(permission.IpRanges, IsPublicCIDR)
        \o SelectSeq(permission.Ipv6Ranges, IsPublicCIDR)

\* A mutant: a port already reported for an earlier range is not reported
\* again.
RECURSIVE DedupByPort(_, _)
DedupByPort(findings, seen) ==
    IF findings = <<>> THEN <<>>
    ELSE IF Head(findings).Port \in seen THEN DedupByPort(Tail(findings), seen)
    ELSE <<Head(findings)>>
         \o DedupByPort(Tail(findings), seen \cup {Head(findings).Port})

evaluateSecurityGroupRuleDedup(permission, groupID, groupName, orders) ==
    LET ranges == PublicRanges(permission)
    IN  DedupByPort(
            Concat([k \in DOMAIN ranges |->
                       checkPortRange(permission.FromPort, permission.ToPort,
                                      awsToString(permission.IpProtocol), ranges[k],
                                      groupID, groupName, orders[k])]), {})

\* orders[k]: the map order of the k-th checkPortRange call.
evaluateSecurityGroupRule(permission, groupID, groupName, orders) ==
    LET ranges == PublicRanges(permission)
    IN  Concat([k \in DOMAIN ranges |->
                   checkPortRange(permission.FromPort, permission.ToPort,
                                  awsToString(permission.IpProtocol), ranges[k],
                                  groupID, groupName, orders[k])])

\* Ingress rules: port numbers around the risky ports, the all-traffic
\* sentinel, TCP by name and UDP by number, public and private ranges.
PortNumbers == {0 - 1, 0, 22, 80, 3389, 65535}

IpPermissions ==
    [FromPort : PortNumbers, ToPort : PortNumbers,
     IpProtocol : {"-1", "tcp", "17"},
     IpRanges : SeqsUpTo({"0.0.0.0/0", "10.0.0.0/8"}, MaxRanges),
     Ipv6Ranges : SeqsUpTo({"::/0", "fd00::/8"}, MaxRanges)]

SGIdle ==
    /\ sgPc = "idle"
    /\ ingressRule = [FromPort |-> 0, ToPort |-> 0, IpProtocol |-> "nil",
                      IpRanges |-> <<>>, Ipv6Ranges |-> <<>>]
    /\ sgFindings = <<>>

CallEvaluateSecurityGroupRule ==
    /\ sgPc = "idle"
    /\ \E perm \in IpPermissions :
       \E orders \in [1..Len(PublicRanges(perm)) -> MapIterationOrders] :
        /\ sgPc' = "done"
        /\ ingressRule' = perm
        /\ sgFindings' = evaluateSecurityGroupRule(perm, "sg-123", "test-sg", orders)
        /\ UNCHANGED <<pdbVars, certVars, utilVars, sevVars, s3Vars, ebsVars, estVars, auditVars, costVars, countVars, pdbScanVars, certScanVars, secRunVars, healthVars>>

\* Ports handed to GetPortSeverity directly: the risky ones and others.
SeverityPorts == DOMAIN RiskyPorts \cup {0, 21, 23, 80, 443, 8080, 65535}

SevIdle == sevPc = "idle" /\ sevPort = 0 /\ sevResult = ""

\* In runAWSSecurity the security-group check, which calls GetPortSeverity,
\* starts when CheckPublicS3Buckets has returned.
CallGetPortSeverity ==
    /\ sevPc = "idle"
    /\ s3Pc = "done"
    /\ \E port \in SeverityPorts :
        /\ sevPc' = "done"
        /\ sevPort' = port
        /\ sevResult' = GetPortSeverity(port)
        /\ UNCHANGED <<pdbVars, certVars, utilVars, sgVars, s3Vars, ebsVars, estVars, auditVars, costVars, countVars, pdbScanVars, certScanVars, secRunVars, healthVars>>

(***************************************************************************)
(* pkg/aws/security.go: CheckPublicS3Buckets                               *)
(***************************************************************************)
MaxBuckets == 2
MaxGrants == 2

Regions == {"us-east-1", "eu-west-1"}

AllUsersURI == "http://acs.amazonaws.com/groups/global/AllUsers"
AuthenticatedUsersURI == "http://acs.amazonaws.com/groups/global/AuthenticatedUsers"
LogDeliveryURI == "http://acs.amazonaws.com/groups/s3/LogDelivery"

\* The answers of the three S3 calls the loop makes for a bucket.  called is
\* FALSE for a call the loop did not make.  A *bool flag is "true", "false"
\* or "nil"; a grant is the URI of its grantee, "nil" when the grant has no
\* grantee or the grantee has no URI.
LocationNotCalled == [called |-> FALSE, err |-> FALSE, LocationConstraint |-> ""]
LocationResponses ==
    {[called |-> TRUE, err |-> TRUE, LocationConstraint |-> ""]} \cup
    {[called |-> TRUE, err |-> FALSE, LocationConstraint |-> l] : l \in {"", "eu-west-1"}}

Flags == {"true", "false", "nil"}
NoConfiguration ==
    [present |-> FALSE, BlockPublicAcls |-> "nil", BlockPublicPolicy |-> "nil",
     IgnorePublicAcls |-> "nil", RestrictPublicBuckets |-> "nil"]
Configurations ==
    [present : {TRUE}, BlockPublicAcls : Flags, BlockPublicPolicy : Flags,
     IgnorePublicAcls : Flags, RestrictPublicBuckets : Flags]

PabNotCalled == [called |-> FALSE, err |-> FALSE, config |-> NoConfiguration]
PabResponses ==
    {[called |-> TRUE, err |-> TRUE, config |-> NoConfiguration]} \cup
    {[called |-> TRUE, err |-> FALSE, config |-> c] :
        c \in Configurations \cup {NoConfiguration}}

GrantURIs == {"nil", AllUsersURI, AuthenticatedUsersURI, LogDeliveryURI}
AclNotCalled == [called |-> FALSE, err |-> FALSE, Grants |-> <<>>]
AclResponses ==
    {[called |-> TRUE, err |-> TRUE, Grants |-> <<>>]} \cup
    {[called |-> TRUE, err |-> FALSE, Grants |-> g] : g \in SeqsUpTo(GrantURIs, MaxGrants)}

\* The bucket passes the two `continue`s: its location was read and, with
\* the empty constraint read as us-east-1, is the auditor's region.
BucketInRegion(loc, region) ==
    /\ ~loc.err
    /\ (IF loc.LocationConstraint = "" THEN "us-east-1" ELSE loc.LocationConstraint)
           = region

\* GetBucketAcl is called only in the branch where GetPublicAccessBlock failed.
AclConsulted(pab) == pab.err

PublicGrant(uri) == uri # "nil" /\ uri \in {AllUsersURI, AuthenticatedUsersURI}

\* A mutant: RestrictPublicBuckets is not looked at.
BucketExposureThreeFlags(pab, acl) ==
    IF pab.err
    THEN IF ~acl.err /\ \E k \in DOMAIN acl.Grants : PublicGrant(acl.Grants[k])
         THEN [isPublic |-> TRUE, publicReason |-> "Public ACL"]
         ELSE [isPublic |-> FALSE, publicReason |-> ""]
    ELSE IF /\ pab.config.present
            /\ \/ ~awsToBool(pab.config.BlockPublicAcls)
               \/ ~awsToBool(pab.config.BlockPublicPolicy)
               \/ ~awsToBool(pab.config.IgnorePublicAcls)
         THEN [isPublic |-> TRUE, publicReason |-> "Public Access Block Disabled"]
         ELSE [isPublic |-> FALSE, publicReason |-> ""]

\* isPublic and publicReason at line 158.
BucketExposure(pab, acl) ==
    IF pab.err
    THEN IF ~acl.err /\ \E k \in DOMAIN acl.Grants : PublicGrant(acl.Grants[k])
         THEN [isPublic |-> TRUE, publicReason |-> "Public ACL"]
         ELSE [isPublic |-> FALSE, publicReason |-> ""]
    ELSE IF /\ pab.config.present
            /\ \/ ~awsToBool(pab.config.BlockPublicAcls)
               \/ ~awsToBool(pab.config.BlockPublicPolicy)
               \/ ~awsToBool(pab.config.IgnorePublicAcls)
               \/ ~awsToBool(pab.config.RestrictPublicBuckets)
         THEN [isPublic |-> TRUE, publicReason |-> "Public Access Block Disabled"]
         ELSE [isPublic |-> FALSE, publicReason |-> ""]

PublicS3Bucket(bucketName, publicReason) ==
    [BucketName |-> bucketName, PublicAccess |-> publicReason,
     Severity |-> "critical"]

S3Idle ==
    /\ s3Pc = "idle"
    /\ s3Region = "us-east-1"
    /\ s3Buckets = 0
    /\ s3Idx = 0
    /\ s3Location = LocationNotCalled
    /\ s3Pab = PabNotCalled
    /\ s3Acl = AclNotCalled
    /\ publicBuckets = <<>>
    /\ s3Err = ""

\* NewSecurityAuditor for a region, then the ListBuckets call.
ListBuckets ==
    /\ s3Pc = "idle"
    /\ \E region \in Regions :
       \E listErr \in BOOLEAN :
       \E n \in (IF listErr THEN {0} ELSE 0..MaxBuckets) :
        /\ s3Region' = region
        /\ s3Buckets' = n
        /\ s3Pc' = IF listErr THEN "done" ELSE "loop"
        /\ s3Err' = IF listErr THEN "failed to list S3 buckets" ELSE ""
        /\ UNCHANGED <<s3Idx, s3Location, s3Pab, s3Acl, publicBuckets>>
        /\ UNCHANGED <<pdbVars, certVars, utilVars, sgVars, sevVars, ebsVars, estVars, auditVars, costVars, countVars, pdbScanVars, certScanVars, secRunVars, healthVars>>

\* One pass of the loop body, for bucket s3Idx + 1.
CheckBucket ==
    /\ s3Pc = "loop"
    /\ s3Idx < s3Buckets
    /\ \E loc \in LocationResponses :
       \E pab \in (IF BucketInRegion(loc, s3Region) THEN PabResponses ELSE {PabNotCalled}) :
       \E acl \in (IF pab.called /\ AclConsulted(pab) THEN AclResponses ELSE {AclNotCalled}) :
        /\ s3Idx' = s3Idx + 1
        /\ s3Location' = loc
        /\ s3Pab' = pab
        /\ s3Acl' = acl
        /\ publicBuckets' =
              IF pab.called /\ BucketExposure(pab, acl).isPublic
              THEN Append(publicBuckets,
                          PublicS3Bucket(s3Idx + 1, BucketExposure(pab, acl).publicReason))
              ELSE publicBuckets
        /\ UNCHANGED <<s3Pc, s3Region, s3Buckets, s3Err>>
        /\ UNCHANGED <<pdbVars, certVars, utilVars, sgVars, sevVars, ebsVars, estVars, auditVars, costVars, countVars, pdbScanVars, certScanVars, secRunVars, healthVars>>

\* return publicBuckets, nil: the locals of the loop are gone.
ReturnPublicBuckets ==
    /\ s3Pc = "loop"
    /\ s3Idx = s3Buckets
    /\ s3Pc' = "done"
    /\ s3Location' = LocationNotCalled
    /\ s3Pab' = PabNotCalled
    /\ s3Acl' = AclNotCalled
    /\ UNCHANGED <<s3Region, s3Buckets, s3Idx, publicBuckets, s3Err>>
    /\ UNCHANGED <<pdbVars, certVars, utilVars, sgVars, sevVars, ebsVars, estVars, auditVars, costVars, countVars, pdbScanVars, certScanVars, secRunVars, healthVars>>

(***************************************************************************)
(* pkg/aws/auditor.go: unattached volumes and orphaned snapshots           *)
(***************************************************************************)
MaxVolumes == 2
MaxSnapshots == 2

\* The volumes of the region.  A volume's id is its position; a size that
\* the API leaves out reads as 0 (aws.ToInt32).
VolumeTypes == {"gp2", "gp3", "io1", "io2", "st1", "sc1", "standard"}
VolumeSizes == {0, 50, 100, 200, 1000}
Volumes == [Size : VolumeSizes, VolumeType : VolumeTypes, State : {"available", "in-use"}]

\* DescribeVolumes with the filter status = available: the volumes of the
\* region in that state, in order, each with its id.
RECURSIVE DescribeAvailableVolumes(_, _)
DescribeAvailableVolumes(volumes, i) ==
    IF i > Len(volumes) THEN <<>>
    ELSE (IF volumes[i].State = "available"
          THEN <<[VolumeId |-> i, Size |-> volumes[i].Size,
                  VolumeType |-> volumes[i].VolumeType]>>
          ELSE <<>>) \o DescribeAvailableVolumes(volumes, i + 1)

\* A mutant: every type is charged the default rate.
calculateEBSCostFlatRate(sizeGB, volumeType) == sizeGB * 100

\* Thousandths of a dollar per GB-month.
calculateEBSCost(sizeGB, volumeType) ==
    LET pricePerGB ==
            CASE volumeType = "gp2" -> 100
              [] volumeType = "gp3" -> 80
              [] volumeType \in {"io1", "io2"} -> 125
              [] volumeType = "st1" -> 45
              [] volumeType = "sc1" -> 15
              [] OTHER -> 100
    IN  sizeGB * pricePerGB

\* A mutant: the snapshot rate is the gp2 volume rate.
calculateSnapshotCostVolumeRate(sizeGB) == sizeGB * 100

calculateSnapshotCost(sizeGB) == sizeGB * 50

\* describeErr: DescribeVolumes failed.
FindUnattachedVolumes(describeErr, volumes) ==
    IF describeErr
    THEN [items |-> <<>>, err |-> "failed to describe volumes"]
    ELSE LET result == DescribeAvailableVolumes(volumes, 1)
         IN  [items |->
                 [k \in DOMAIN result |->
                     [VolumeID |-> result[k].VolumeId,
                      Size |-> result[k].Size,
                      VolumeType |-> result[k].VolumeType,
                      MonthlyCost |-> calculateEBSCost(result[k].Size,
                                                       result[k].VolumeType)]],
              err |-> ""]

\* The snapshots DescribeSnapshots lists: the source volume id is a *string
\* ("nil" for the nil pointer), the snapshot's id is its position.
SnapshotVolumeIds == {"nil", "", "vol-1", "vol-2"}
Snapshots == [VolumeId : SnapshotVolumeIds, VolumeSize : {0, 100, 500}]

\* The ids of the volumes the unfiltered DescribeVolumes lists.
LiveVolumeIds == {"vol-1", "vol-2"}

\* A mutant: a snapshot without a source volume id is not looked at.
IsOrphanedSkipsMissingId(snap, volumeIDs) ==
    awsToString(snap.VolumeId) # "" /\ awsToString(snap.VolumeId) \notin volumeIDs

\* if !volumeIDs[aws.ToString(snap.VolumeId)]
IsOrphaned(snap, volumeIDs) == awsToString(snap.VolumeId) \notin volumeIDs

RECURSIVE OrphanLoop(_, _, _)
OrphanLoop(snapshots, volumeIDs, i) ==
    IF i > Len(snapshots) THEN <<>>
    ELSE (IF IsOrphaned(snapshots[i], volumeIDs)
          THEN <<[SnapshotID |-> i,
                  Size |-> snapshots[i].VolumeSize,
                  MonthlyCost |-> calculateSnapshotCost(snapshots[i].VolumeSize)]>>
          ELSE <<>>) \o OrphanLoop(snapshots, volumeIDs, i + 1)

\* snapErr, volErr: DescribeSnapshots, DescribeVolumes failed.  volumeIds are
\* the ids of the volumes listed in this call.
FindOrphanedSnapshots(snapErr, snapshots, volErr, volumeIds) ==
    IF snapErr THEN [items |-> <<>>, err |-> "failed to describe snapshots"]
    ELSE IF volErr THEN [items |-> <<>>, err |-> "failed to describe volumes"]
    ELSE LET volumeIDs == {volumeIds[k] : k \in DOMAIN volumeIds}
         IN  [items |-> OrphanLoop(snapshots, volumeIDs, 1), err |-> ""]

EBSIdle ==
    /\ ebsOp = "idle"
    /\ ebsVolumes = <<>>
    /\ ebsSnapshots = <<>>
    /\ ebsResult = [items |-> <<>>, err |-> ""]

CallFindUnattachedVolumes ==
    /\ ebsOp = "idle"
    /\ \E describeErr \in BOOLEAN :
       \E volumes \in (IF describeErr THEN {<<>>} ELSE SeqsUpTo(Volumes, MaxVolumes)) :
        /\ ebsOp' = "volumes"
        /\ ebsVolumes' = volumes
        /\ ebsSnapshots' = <<>>
        /\ ebsResult' = FindUnattachedVolumes(describeErr, volumes)
        /\ UNCHANGED <<pdbVars, certVars, utilVars, sgVars, sevVars, s3Vars, estVars, auditVars, costVars, countVars, pdbScanVars, certScanVars, secRunVars, healthVars>>

CallFindOrphanedSnapshots ==
    /\ ebsOp = "idle"
    /\ \E snapErr \in BOOLEAN :
       \E snapshots \in (IF snapErr THEN {<<>>} ELSE SeqsUpTo(Snapshots, MaxSnapshots)) :
       \E volErr \in (IF snapErr THEN {FALSE} ELSE BOOLEAN) :
       \E volumeIds \in (IF snapErr \/ volErr THEN {<<>>}
                         ELSE SeqsUpTo(LiveVolumeIds, MaxVolumes)) :
        /\ ebsOp' = "snapshots"
        /\ ebsVolumes' = volumeIds
        /\ ebsSnapshots' = snapshots
        /\ ebsResult' = FindOrphanedSnapshots(snapErr, snapshots, volErr, volumeIds)
        /\ UNCHANGED <<pdbVars, certVars, utilVars, sgVars, sevVars, s3Vars, estVars, auditVars, costVars, countVars, pdbScanVars, certScanVars, secRunVars, healthVars>>

(***************************************************************************)
(* pkg/aws/auditor.go, pkg/aws/cost.go: the estimators called directly     *)
(***************************************************************************)
\* Every key of the two price tables, and keys of neither.
EstimatorKeys ==
    DOMAIN EC2Costs \cup DOMAIN RDSCosts
        \cup {"", "r6g.16xlarge", "z9.unlisted", "db.z9.unlisted"}

EstIdle == estPc = "idle" /\ estFn = "" /\ estKey = "" /\ estCost = 0

\* A direct call, as the package's tests make it; such a process runs no scan.
CallEstimateEC2Cost ==
    /\ estPc = "idle" /\ scanKind = "idle"
    /\ \E instanceType \in EstimatorKeys :
        /\ estPc' = "done"
        /\ estFn' = "ec2"
        /\ estKey' = instanceType
        /\ estCost' = estimateEC2Cost(instanceType)
        /\ UNCHANGED <<pdbVars, certVars, utilVars, sgVars, sevVars, s3Vars, ebsVars, auditVars, costVars, countVars, pdbScanVars, certScanVars, secRunVars, healthVars>>

CallEstimateRDSCost ==
    /\ estPc = "idle" /\ scanKind = "idle"
    /\ \E instanceClass \in EstimatorKeys :
        /\ estPc' = "done"
        /\ estFn' = "rds"
        /\ estKey' = instanceClass
        /\ estCost' = estimateRDSCost(instanceClass)
        /\ UNCHANGED <<pdbVars, certVars, utilVars, sgVars, sevVars, s3Vars, ebsVars, auditVars, costVars, countVars, pdbScanVars, certScanVars, secRunVars, healthVars>>

(***************************************************************************)
(* cmd/aws.go runAWSAudit; pkg/aws/auditor.go AuditResults                 *)
(***************************************************************************)
MaxRegions == 2
MaxCalculateCalls == 2

\* Elastic IP addresses: the association id is a *string.
Addresses == [AssociationId : {"nil", "", "eipassoc-1"}]

RECURSIVE UnusedLoop(_, _)
UnusedLoop(addresses, i) ==
    IF i > Len(addresses) THEN <<>>
    ELSE (IF addresses[i].AssociationId = "nil"
             \/ awsToString(addresses[i].AssociationId) = ""
          THEN <<[AllocationID |-> i, MonthlyCost |-> 3600]>>
          ELSE <<>>) \o UnusedLoop(addresses, i + 1)

\* describeErr: DescribeAddresses failed.
FindUnusedElasticIPs(describeErr, addresses) ==
    IF describeErr THEN [items |-> <<>>, err |-> "failed to describe addresses"]
    ELSE [items |-> UnusedLoop(addresses, 1), err |-> ""]

\* The zero value of AuditResults.
EmptyAuditResults ==
    [UnattachedVolumes |-> <<>>, UnderutilizedInstances |-> <<>>,
     UnderutilizedRDSInstances |-> <<>>, OrphanedSnapshots |-> <<>>,
     UnusedElasticIPs |-> <<>>, TotalPotentialSavings |-> 0]

RECURSIVE SumMonthlyCost(_, _)
\* total after "for _, x := range list { total += x.MonthlyCost }".
SumMonthlyCost(total, list) ==
    IF list = <<>> THEN total
    ELSE SumMonthlyCost(total + Head(list).MonthlyCost, Tail(list))

\* A mutant: the total is accumulated onto the field's previous value.
CalculateSavingsAccumulate(r) ==
    [r EXCEPT !.TotalPotentialSavings =
        SumMonthlyCost(SumMonthlyCost(SumMonthlyCost(SumMonthlyCost(SumMonthlyCost(
            r.TotalPotentialSavings, r.UnattachedVolumes), r.UnderutilizedInstances),
            r.UnderutilizedRDSInstances), r.OrphanedSnapshots), r.UnusedElasticIPs)]

CalculateSavings(r) ==
    [r EXCEPT !.TotalPotentialSavings =
        SumMonthlyCost(SumMonthlyCost(SumMonthlyCost(SumMonthlyCost(SumMonthlyCost(
            0, r.UnattachedVolumes), r.UnderutilizedInstances),
            r.UnderutilizedRDSInstances), r.OrphanedSnapshots), r.UnusedElasticIPs)]

\* What the APIs of one region answer: the records listed, and the call that
\* fails, if one does ("" for none).
FailurePoints ==
    {"", "auditor", "volumes", "instances", "snapshots", "snapshot-volumes",
     "addresses", "rds"}

QuietRegion ==
    [volumes |-> <<>>, instances |-> <<>>, snapshots |-> <<>>,
     liveVolumeIds |-> <<>>, addresses |-> <<>>, dbInstances |-> <<>>]

ComputeRegion ==
    [QuietRegion EXCEPT
        !.volumes = <<[Size |-> 100, VolumeType |-> "gp3", State |-> "available"],
                      [Size |-> 50, VolumeType |-> "gp2", State |-> "in-use"]>>,
        !.instances = <<[InstanceType |-> "t3.micro",
                         cpu |-> [err |-> FALSE, Datapoints |-> <<0>>]],
                        [InstanceType |-> "z9.unlisted",
                         cpu |-> [err |-> TRUE, Datapoints |-> <<>>]]>>]

StorageRegion ==
    [QuietRegion EXCEPT
        !.snapshots = <<[VolumeId |-> "nil", VolumeSize |-> 100],
                        [VolumeId |-> "vol-1", VolumeSize |-> 500]>>,
        !.liveVolumeIds = <<"vol-1">>,
        !.addresses = <<[AssociationId |-> "nil"],
                        [AssociationId |-> "eipassoc-1"]>>,
        !.dbInstances = <<[DBInstanceClass |-> "db.t3.micro",
                           cpu |-> [err |-> FALSE, Datapoints |-> <<5>>]]>>]

BusyRegion ==
    [StorageRegion EXCEPT
        !.volumes = ComputeRegion.volumes,
        !.instances = ComputeRegion.instances]

RegionRecords == {QuietRegion, ComputeRegion, StorageRegion, BusyRegion}

RegionAnswers == [records : RegionRecords, failure : FailurePoints]

\* The flags as the command line sets them: all by default, or one disabled.
IncludeFlags ==
    LET all == [ebs |-> TRUE, ec2 |-> TRUE, snapshots |-> TRUE,
                eips |-> TRUE, rds |-> TRUE]
    IN  {all} \cup {[all EXCEPT ![f] = FALSE] : f \in DOMAIN all}

NoAuditErr == [what |-> "", region |-> ""]

\* A mutant: a region's findings replace those of the regions before it.
appendFindingsOverwrite(list, found) == found

\* allResults.X = append(allResults.X, found...)
appendFindings(list, found) == list \o found

\* One pass of the region loop.  s = [res, err]: the aggregate so far and
\* the error returned, if any; a is what the region answers.
scanVolumes(s, region, a, inc) ==
    IF s.err # NoAuditErr \/ ~inc.ebs THEN s
    ELSE LET r == FindUnattachedVolumes(a.failure = "volumes", a.records.volumes)
         IN  IF r.err # ""
             THEN [s EXCEPT !.err = [what |-> "failed to audit EBS volumes",
                                     region |-> region]]
             ELSE [s EXCEPT !.res.UnattachedVolumes = appendFindings(@, r.items)]

scanInstances(s, region, a, inc) ==
    IF s.err # NoAuditErr \/ ~inc.ec2 THEN s
    ELSE LET r == FindUnderutilizedInstances(a.failure = "instances",
                                             a.records.instances)
         IN  IF r.err # ""
             THEN [s EXCEPT !.err = [what |-> "failed to audit EC2 instances",
                                     region |-> region]]
             ELSE [s EXCEPT !.res.UnderutilizedInstances =
                                appendFindings(@, r.instances)]

scanSnapshots(s, region, a, inc) ==
    IF s.err # NoAuditErr \/ ~inc.snapshots THEN s
    ELSE LET r == FindOrphanedSnapshots(a.failure = "snapshots",
                                        a.records.snapshots,
                                        a.failure = "snapshot-volumes",
                                        a.records.liveVolumeIds)
         IN  IF r.err # ""
             THEN [s EXCEPT !.err = [what |-> "failed to audit snapshots",
                                     region |-> region]]
             ELSE [s EXCEPT !.res.OrphanedSnapshots = appendFindings(@, r.items)]

scanElasticIPs(s, region, a, inc) ==
    IF s.err # NoAuditErr \/ ~inc.eips THEN s
    ELSE LET r == FindUnusedElasticIPs(a.failure = "addresses", a.records.addresses)
         IN  IF r.err # ""
             THEN [s EXCEPT !.err = [what |-> "failed to audit Elastic IPs",
                                     region |-> region]]
             ELSE [s EXCEPT !.res.UnusedElasticIPs = appendFindings(@, r.items)]

scanRDS(s, region, a, inc) ==
    IF s.err # NoAuditErr \/ ~inc.rds THEN s
    ELSE LET r == FindUnderutilizedRDS(a.failure = "rds", a.records.dbInstances)
         IN  IF r.err # ""
             THEN [s EXCEPT !.err = [what |-> "failed to audit RDS instances",
                                     region |-> region]]
             ELSE [s EXCEPT !.res.UnderutilizedRDSInstances =
                                appendFindings(@, r.instances)]

\* A mutant: a region that fails is left out and the loop goes on.
scanRegionDropsFailed(res, region, a, inc) ==
    LET s == scanRDS(scanElasticIPs(scanSnapshots(scanInstances(scanVolumes(
                 [res |-> res, err |-> NoAuditErr],
                 region, a, inc), region, a, inc), region, a, inc), region, a, inc),
                 region, a, inc)
    IN  IF a.failure = "auditor" \/ s.err # NoAuditErr
        THEN [res |-> res, err |-> NoAuditErr]
        ELSE s

scanRegion(res, region, a, inc) ==
    IF a.failure = "auditor"
    THEN [res |-> res, err |-> [what |-> "failed to create AWS auditor",
                                region |-> region]]
    ELSE scanRDS(scanElasticIPs(scanSnapshots(scanInstances(scanVolumes(
             [res |-> res, err |-> NoAuditErr],
             region, a, inc), region, a, inc), region, a, inc), region, a, inc),
             region, a, inc)

\* The region loop from position i on, stopping at the first error.
RECURSIVE scanRegions(_, _, _, _, _)
scanRegions(res, regions, world, inc, i) ==
    IF i > Len(regions) THEN [res |-> res, err |-> NoAuditErr]
    ELSE LET s == scanRegion(res, regions[i], world[regions[i]], inc)
         IN  IF s.err # NoAuditErr THEN s
             ELSE scanRegions(s.res, regions, world, inc, i + 1)

\* --format: the formats RenderAuditResults knows, and one it does not.
SupportedFormats == {"json", "table", "csv"}
Formats == SupportedFormats \cup {"xml"}

AuditIdle ==
    /\ auditPc = "idle"
    /\ auditRegions = <<>>
    /\ auditWorld = <<>>
    /\ auditInclude = [ebs |-> TRUE, ec2 |-> TRUE, snapshots |-> TRUE,
                       eips |-> TRUE, rds |-> TRUE]
    /\ auditIdx = 0
    /\ allResults = EmptyAuditResults
    /\ auditErr = NoAuditErr
    /\ outputFormat = "table"
    /\ slackWebhook = FALSE
    /\ alertThreshold = 0
    /\ auditRendered = FALSE
    /\ auditAlerted = FALSE
    /\ calcCalls = 0

auditRunVars == <<auditRegions, auditWorld, auditInclude>>
auditOutVars == <<outputFormat, slackWebhook, alertThreshold, auditRendered,
                  auditAlerted>>

\* The command line of one run: --format, --slack-webhook (given or not)
\* and --alert-threshold in thousandths of a dollar.
OutputFlags ==
    {[format |-> f, webhook |-> w, threshold |-> t] :
        f \in Formats, w \in BOOLEAN, t \in {0, 50000}}
        \ {[format |-> f, webhook |-> FALSE, threshold |-> 50000] : f \in Formats}

\* The entries between the commas of --regions: region names, bare or
\* padded with blanks, and the empty entry.
RegionEntries == {"us-east-1", "eu-west-1", " eu-west-1 ", ""}

\* strings.TrimSpace on an entry.
TrimSpace(entry) ==
    IF entry = " eu-west-1 " THEN "eu-west-1" ELSE entry

\* strings.Split(awsRegions, ","): at least one entry; the flag left out or
\* empty is the single entry "".
RegionsFlags == SeqsUpTo(RegionEntries, MaxRegions) \ {<<>>}

\* What AWS_REGION holds, "" when it is not set; it is read only when the
\* flag is empty.
EnvRegions == {"", "eu-west-1"}

\* The loop over the entries: each is trimmed and kept unless it is empty.
RECURSIVE parseRegions(_)
parseRegions(entries) ==
    IF entries = <<>> THEN <<>>
    ELSE LET trimmed == TrimSpace(Head(entries))
         IN  (IF trimmed # "" THEN <<trimmed>> ELSE <<>>)
                 \o parseRegions(Tail(entries))

\* The region list of a run: of the flag, or else of AWS_REGION, or else
\* of "us-east-1".
regionsOf(flag, env) ==
    parseRegions(IF flag # <<"">> THEN flag
                 ELSE IF env # "" THEN <<env>>
                 ELSE <<"us-east-1">>)

\* runAWSAudit up to the region loop: the flags, the region list, and the
\* answers the listed regions will give.
StartAudit ==
    /\ auditPc = "idle"
    /\ \E flag \in RegionsFlags :
       \E env \in (IF flag = <<"">> THEN EnvRegions ELSE {""}) :
       \E regions \in {regionsOf(flag, env)} :
       \E world \in [{regions[k] : k \in DOMAIN regions} -> RegionAnswers] :
       \E inc \in IncludeFlags :
       \E flags \in OutputFlags :
        /\ auditPc' = "loop"
        /\ auditRegions' = regions
        /\ auditWorld' = world
        /\ auditInclude' = inc
        /\ outputFormat' = flags.format
        /\ slackWebhook' = flags.webhook
        /\ alertThreshold' = flags.threshold
        /\ allResults' = EmptyAuditResults
        /\ UNCHANGED <<auditIdx, auditErr, calcCalls, auditRendered, auditAlerted>>
        /\ UNCHANGED <<pdbVars, certVars, utilVars, sgVars, sevVars, s3Vars, ebsVars, estVars, costVars, countVars, pdbScanVars, certScanVars, secRunVars, healthVars>>

\* One iteration of "for _, region := range regions".
ScanRegion ==
    /\ auditPc = "loop"
    /\ auditIdx < Len(auditRegions)
    /\ LET region == auditRegions[auditIdx + 1]
           s == scanRegion(allResults, region, auditWorld[region], auditInclude)
       IN  /\ allResults' = s.res
           /\ auditErr' = s.err
           /\ auditIdx' = auditIdx + 1
           /\ auditPc' = IF s.err # NoAuditErr THEN "failed" ELSE "loop"
    /\ UNCHANGED <<auditRunVars, calcCalls, auditOutVars>>
    /\ UNCHANGED <<pdbVars, certVars, utilVars, sgVars, sevVars, s3Vars, ebsVars, estVars, costVars, countVars, pdbScanVars, certScanVars, secRunVars, healthVars>>

\* After the loop: allResults.CalculateSavings().
CalculateAuditSavings ==
    /\ auditPc = "loop"
    /\ auditIdx = Len(auditRegions)
    /\ allResults' = CalculateSavings(allResults)
    /\ calcCalls' = calcCalls + 1
    /\ auditPc' = "calculated"
    /\ UNCHANGED <<auditRunVars, auditIdx, auditErr, auditOutVars>>
    /\ UNCHANGED <<pdbVars, certVars, utilVars, sgVars, sevVars, s3Vars, ebsVars, estVars, costVars, countVars, pdbScanVars, certScanVars, secRunVars, healthVars>>

\* A mutant: the table renderer empties the volume list as it prints it.
RenderAuditResultsConsumes(format, results) ==
    [results |->
        IF format = "table" THEN [results EXCEPT !.UnattachedVolumes = <<>>]
        ELSE results,
     err |-> IF format \in SupportedFormats THEN "" ELSE "unsupported format"]

\* The aggregate after rendering, which only reads it, and the error for a
\* format that is none of "json", "table", "csv".
RenderAuditResults(format, results) ==
    [results |-> results,
     err |-> IF format \in SupportedFormats THEN "" ELSE "unsupported format"]

\* rep.RenderAuditResults(allResults)
RenderAudit ==
    /\ auditPc = "calculated"
    /\ LET r == RenderAuditResults(outputFormat, allResults)
       IN  /\ allResults' = r.results
           /\ auditRendered' = (r.err = "")
           /\ auditErr' = IF r.err = "" THEN NoAuditErr
                          ELSE [what |-> "failed to render results", region |-> ""]
           /\ auditPc' = IF r.err = "" THEN "rendered" ELSE "failed"
    /\ UNCHANGED <<auditRunVars, auditIdx, calcCalls, outputFormat, slackWebhook,
                   alertThreshold, auditAlerted>>
    /\ UNCHANGED <<pdbVars, certVars, utilVars, sgVars, sevVars, s3Vars, ebsVars, estVars, costVars, countVars, pdbScanVars, certScanVars, secRunVars, healthVars>>

\* The Slack alert, sent if a webhook is configured and the savings exceed
\* the threshold; SendAlert gets a copy of the aggregate, and its failure
\* is only a warning.
AlertAudit ==
    /\ auditPc = "rendered"
    /\ auditAlerted' = (slackWebhook
                          /\ allResults.TotalPotentialSavings > alertThreshold)
    /\ auditPc' = "done"
    /\ UNCHANGED <<auditRunVars, auditIdx, allResults, auditErr, calcCalls,
                   outputFormat, slackWebhook, alertThreshold, auditRendered>>
    /\ UNCHANGED <<pdbVars, certVars, utilVars, sgVars, sevVars, s3Vars, ebsVars, estVars, costVars, countVars, pdbScanVars, certScanVars, secRunVars, healthVars>>

\* The findings of TestAuditResultsCalculateSavings, by kind.
LiteralFindings ==
    [UnattachedVolumes |-> <<[VolumeID |-> 123, Size |-> 100, VolumeType |-> "gp3",
                              MonthlyCost |-> 8000],
                             [VolumeID |-> 456, Size |-> 50, VolumeType |-> "gp2",
                              MonthlyCost |-> 5000]>>,
     UnderutilizedInstances |-> <<[InstanceID |-> 123, InstanceType |-> "t3.micro",
                                   AvgCPUUtilization |-> Rat(0, 1),
                                   MonthlyCost |-> 9000]>>,
     UnderutilizedRDSInstances |-> <<[InstanceID |-> 1, InstanceClass |-> "db.t3.micro",
                                      AvgCPUUtilization |-> Rat(5, 1),
                                      MonthlyCost |-> 15000],
                                     [InstanceID |-> 2, InstanceClass |-> "db.t3.small",
                                      AvgCPUUtilization |-> Rat(3, 1),
                                      MonthlyCost |-> 30000]>>,
     OrphanedSnapshots |-> <<[SnapshotID |-> 123, Size |-> 100, MonthlyCost |-> 5000]>>,
     UnusedElasticIPs |-> <<[AllocationID |-> 123, MonthlyCost |-> 3600],
                            [AllocationID |-> 456, MonthlyCost |-> 3600]>>]

\* The value a literal gives TotalPotentialSavings: left out (0) or set.
LiteralTotals == {0, 1000}

\* An AuditResults literal holding any of those lists.
ConstructAuditResults ==
    /\ auditPc = "idle"
    /\ \E kinds \in SUBSET (DOMAIN LiteralFindings) :
       \E total \in LiteralTotals :
        /\ auditPc' = "built"
        /\ allResults' =
              [f \in DOMAIN EmptyAuditResults |->
                  IF f = "TotalPotentialSavings" THEN total
                  ELSE IF f \in kinds THEN LiteralFindings[f] ELSE <<>>]
        /\ UNCHANGED <<auditRunVars, auditIdx, auditErr, calcCalls, auditOutVars>>
        /\ UNCHANGED <<pdbVars, certVars, utilVars, sgVars, sevVars, s3Vars, ebsVars, estVars, costVars, countVars, pdbScanVars, certScanVars, secRunVars, healthVars>>

\* results.CalculateSavings() called on an aggregate a caller holds.
CallCalculateSavings ==
    /\ auditPc \in {"built", "done"}
    /\ calcCalls < MaxCalculateCalls
    /\ allResults' = CalculateSavings(allResults)
    /\ calcCalls' = calcCalls + 1
    /\ UNCHANGED <<auditPc, auditRunVars, auditIdx, auditErr, auditOutVars>>
    /\ UNCHANGED <<pdbVars, certVars, utilVars, sgVars, sevVars, s3Vars, ebsVars, estVars, costVars, countVars, pdbScanVars, certScanVars, secRunVars, healthVars>>

(***************************************************************************)
(* pkg/aws/cost.go: GetCostAndUsage, LimitToTopN                           *)
(***************************************************************************)
MaxCostDays == 2
MaxLimitCalls == 2

\* parseFloat: Sscanf with %f; text that is no number leaves 0.  Amounts
\* are in thousandths of a dollar.
parseFloat(s) ==
    CASE s = "50.0" -> 50000
      [] s = "30.0" -> 30000
      [] s = "20.0" -> 20000
      [] s = "10.0" -> 10000
      [] s = "5.0" -> 5000
      [] s = "0.0" -> 0
      [] s = "-5.0" -> 0 - 5000
      [] s = "-40.0" -> 0 - 40000
      [] OTHER -> 0

\* One group of a day: Keys, and the UnblendedCost metric ("none" when
\* Metrics lacks it; Amount and Unit are *string).
Group(keys, amount, unit) ==
    [Keys |-> keys, Metric |-> amount, Unit |-> unit]

\* The groups of one day, as Cost Explorer may answer them: the services of
\* the account, credits, a zero amount, a group without keys, a group
\* without the metric, an amount that is no number, equal amounts.
DayGroups ==
    { <<>>,
      <<Group(<<"EC2">>, "50.0", "USD"), Group(<<"S3">>, "30.0", "USD"),
        Group(<<"RDS">>, "20.0", "USD"), Group(<<"Lambda">>, "10.0", "USD"),
        Group(<<"CloudWatch">>, "5.0", "USD")>>,
      <<Group(<<"EC2">>, "20.0", "USD"), Group(<<"RDS">>, "-40.0", "USD")>>,
      <<Group(<<"S3">>, "0.0", "nil"), Group(<<>>, "10.0", "USD"),
        Group(<<"EC2">>, "none", "nil"), Group(<<"RDS">>, "abc", "EUR")>>,
      <<Group(<<"S3">>, "30.0", "USD"), Group(<<"RDS">>, "30.0", "USD"),
        Group(<<"Lambda">>, "-5.0", "USD"), Group(<<"EC2">>, "5.0", "USD")>> }

CostResponses == SeqsUpTo(DayGroups, MaxCostDays)

\* The groups that are counted: some key and the UnblendedCost metric.
Counted(group) == Len(group.Keys) > 0 /\ group.Metric # "none"

RECURSIVE DayTotal(_)
DayTotal(groups) ==
    IF groups = <<>> THEN 0
    ELSE (IF Counted(Head(groups)) THEN parseFloat(awsToString(Head(groups).Metric))
          ELSE 0) + DayTotal(Tail(groups))

RECURSIVE KeyTotal(_, _)
\* costMap[key] after the groups.
KeyTotal(groups, key) ==
    IF groups = <<>> THEN 0
    ELSE (IF Counted(Head(groups)) /\ Head(groups).Keys[1] = key
          THEN parseFloat(awsToString(Head(groups).Metric)) ELSE 0)
         + KeyTotal(Tail(groups), key)

RECURSIVE LastUnit(_, _)
\* currency after the groups: the unit of the last counted group that has one.
LastUnit(groups, currency) ==
    IF groups = <<>> THEN currency
    ELSE LastUnit(Tail(groups),
                  IF Counted(Head(groups)) /\ Head(groups).Unit # "nil"
                  THEN awsToString(Head(groups).Unit) ELSE currency)

CostKeys(groups) ==
    {groups[k].Keys[1] : k \in {j \in DOMAIN groups : Counted(groups[j])}}

\* What sort.Slice with "items[i].Amount > items[j].Amount" guarantees.
SortedDescending(items) ==
    \A i \in 1..(Len(items) - 1) : items[i].Amount >= items[i + 1].Amount

\* The item lists GetCostAndUsage can return for the groups: one item per
\* key of costMap, in an order of descending amount.  The map is iterated in
\* no fixed order and sort.Slice is not stable, so equal amounts may come in
\* any order.
SortedItems(groups, currency) ==
    LET keys == CostKeys(groups)
        n == Cardinality(keys)
    IN  {items \in {[i \in 1..n |-> [Name |-> order[i],
                                     Amount |-> KeyTotal(groups, order[i]),
                                     Unit |-> currency]] :
                      order \in {f \in [1..n -> keys] :
                                   \A i, j \in 1..n : i # j => f[i] # f[j]}} :
            SortedDescending(items)}

EmptyCostResults ==
    [TotalCost |-> 0, Currency |-> "", Items |-> <<>>, DailyTrend |-> <<>>]

CostIdle ==
    /\ costPc = "idle"
    /\ costResponse = <<>>
    /\ costResults = EmptyCostResults
    /\ itemsBefore = <<>>
    /\ topN = 0
    /\ limitCalls = 0

\* fetchErr: the Cost Explorer call failed.
GetCostAndUsage ==
    /\ costPc = "idle"
    /\ \E fetchErr \in BOOLEAN :
       \E response \in (IF fetchErr THEN {<<>>} ELSE CostResponses) :
        LET groups == Concat(response)
            currency == LastUnit(groups, "USD")
        IN  \E items \in SortedItems(groups, currency) :
              /\ costPc' = IF fetchErr THEN "failed" ELSE "fetched"
              /\ costResponse' = response
              /\ costResults' =
                    IF fetchErr THEN EmptyCostResults
                    ELSE [TotalCost |-> DayTotal(groups),
                          Currency |-> currency,
                          Items |-> items,
                          DailyTrend |-> [d \in DOMAIN response |->
                                             DayTotal(response[d])]]
              /\ UNCHANGED <<itemsBefore, topN, limitCalls>>
              /\ UNCHANGED <<pdbVars, certVars, utilVars, sgVars, sevVars, s3Vars, ebsVars, estVars, auditVars, countVars, pdbScanVars, certScanVars, secRunVars, healthVars>>

\* The values of n a caller passes.
TopNValues == {0 - 1, 0, 1, 2, 3, 10}

RECURSIVE SumAmounts(_)
SumAmounts(items) ==
    IF items = <<>> THEN 0 ELSE Head(items).Amount + SumAmounts(Tail(items))

\* A mutant: the "Other" item is appended whatever the sum.
LimitToTopNAlwaysOther(r, n) ==
    IF Len(r.Items) > n
    THEN LET other == SumAmounts(SubSeq(r.Items, n + 1, Len(r.Items)))
         IN  [r EXCEPT !.Items = Append(SubSeq(r.Items, 1, n),
                                        [Name |-> "Other", Amount |-> other,
                                         Unit |-> r.Currency])]
    ELSE r

\* LimitToTopN for n >= 0.
LimitToTopN(r, n) ==
    IF Len(r.Items) > n
    THEN LET topItems == SubSeq(r.Items, 1, n)
             other == SumAmounts(SubSeq(r.Items, n + 1, Len(r.Items)))
         IN  [r EXCEPT !.Items =
                 IF other > 0
                 THEN Append(topItems, [Name |-> "Other", Amount |-> other,
                                        Unit |-> r.Currency])
                 ELSE topItems]
    ELSE r

\* r.LimitToTopN(n) on the results GetCostAndUsage returned.  With n < 0 the
\* slice expression r.Items[:n] panics.
CallLimitToTopN ==
    /\ costPc \in {"fetched", "limited"}
    /\ limitCalls < MaxLimitCalls
    /\ \E n \in TopNValues :
        /\ topN' = n
        /\ itemsBefore' = costResults.Items
        /\ limitCalls' = limitCalls + 1
        /\ IF n < 0
           THEN costPc' = "panicked" /\ UNCHANGED costResults
           ELSE costPc' = "limited" /\ costResults' = LimitToTopN(costResults, n)
        /\ UNCHANGED costResponse
        /\ UNCHANGED <<pdbVars, certVars, utilVars, sgVars, sevVars, s3Vars, ebsVars, estVars, auditVars, countVars, pdbScanVars, certScanVars, secRunVars, healthVars>>

(***************************************************************************)
(* pkg/aws/security.go: SecurityResults.CountBySeverity                    *)
(***************************************************************************)
MaxFindings == 4

SeverityCritical == "critical"
SeverityHigh == "high"
SeverityMedium == "medium"
Severities == {SeverityCritical, SeverityHigh, SeverityMedium}

RECURSIVE CountLoop(_, _)
\* counts after "for _, x := range list { counts[x.Severity]++ }"; a key the
\* map lacks starts from 0.
CountLoop(c, list) ==
    IF list = <<>> THEN c
    ELSE LET sev == Head(list).Severity
             old == IF sev \in DOMAIN c THEN c[sev] ELSE 0
         IN  CountLoop([k \in DOMAIN c \cup {sev} |->
                           IF k = sev THEN old + 1 ELSE c[k]],
                       Tail(list))

\* A mutant: the security groups are not counted.
CountBySeverityBucketsOnly(r) ==
    CountLoop([sev \in Severities |-> 0], r.PublicS3Buckets)

CountBySeverity(r) ==
    CountLoop(CountLoop([sev \in Severities |-> 0], r.PublicS3Buckets),
              r.OpenSecurityGroups)

CountIdle ==
    /\ countPc = "idle"
    /\ secResults = [PublicS3Buckets |-> <<>>, OpenSecurityGroups |-> <<>>]
    /\ counts = [sev \in Severities |-> 0]

\* A SecurityResults as the checks or a literal fill it: findings whose
\* severity is one of the three constants; a finding's id is its position.
ConstructSecurityResults ==
    /\ countPc = "idle"
    /\ \E bucketSeverities \in SeqsUpTo(Severities, MaxFindings) :
       \E groupSeverities \in SeqsUpTo(Severities, MaxFindings) :
        /\ countPc' = "built"
        /\ secResults' =
              [PublicS3Buckets |->
                  [i \in DOMAIN bucketSeverities |->
                      [BucketName |-> i, Severity |-> bucketSeverities[i]]],
               OpenSecurityGroups |->
                  [i \in DOMAIN groupSeverities |->
                      [GroupID |-> i, Severity |-> groupSeverities[i]]]]
        /\ UNCHANGED counts
        /\ UNCHANGED <<pdbVars, certVars, utilVars, sgVars, sevVars, s3Vars, ebsVars, estVars, auditVars, costVars, pdbScanVars, certScanVars, secRunVars, healthVars>>

CallCountBySeverity ==
    /\ countPc = "built"
    /\ countPc' = "counted"
    /\ counts' = CountBySeverity(secResults)
    /\ UNCHANGED secResults
    /\ UNCHANGED <<pdbVars, certVars, utilVars, sgVars, sevVars, s3Vars, ebsVars, estVars, auditVars, costVars, pdbScanVars, certScanVars, secRunVars, healthVars>>

(***************************************************************************)
(* pkg/k8s/pdb.go: CheckPDBStatus                                          *)
(***************************************************************************)
MaxPDBs == 3

\* The status blocks of the listed budgets: no expected pods or a workload
\* of 3, no or 2 healthy pods, 2 or 3 desired, no or 1 disruption allowed.
ListedStatusBlocks ==
    [CurrentHealthy     : {0, 2},
     DesiredHealthy     : {2, 3},
     DisruptionsAllowed : {0, 1},
     ExpectedPods       : {0, 3}]

EmptyPDBResults ==
    [PDBs |-> <<>>, TotalScanned |-> 0, HealthyCount |-> 0, AtRiskCount |-> 0,
     CriticalCount |-> 0, NoPodsCount |-> 0]

\* A mutant: the switch lacks the case "no-pods".
CountPDBNoNoPodsCase(results, info) ==
    [results EXCEPT
        !.TotalScanned = @ + 1,
        !.HealthyCount = IF info.Status = "healthy" THEN @ + 1 ELSE @,
        !.AtRiskCount = IF info.Status = "at-risk" THEN @ + 1 ELSE @,
        !.CriticalCount = IF info.Status = "critical" THEN @ + 1 ELSE @,
        !.PDBs = Append(@, info)]

\* One pass of the loop body, given the PDBInfo analyzePDB returned.
CountPDB(results, info) ==
    [results EXCEPT
        !.TotalScanned = @ + 1,
        !.HealthyCount = IF info.Status = "healthy" THEN @ + 1 ELSE @,
        !.AtRiskCount = IF info.Status = "at-risk" THEN @ + 1 ELSE @,
        !.CriticalCount = IF info.Status = "critical" THEN @ + 1 ELSE @,
        !.NoPodsCount = IF info.Status = "no-pods" THEN @ + 1 ELSE @,
        !.PDBs = Append(@, info)]

RECURSIVE PDBLoop(_, _)
PDBLoop(results, items) ==
    IF items = <<>> THEN results
    ELSE PDBLoop(CountPDB(results, analyzePDB(Head(items))), Tail(items))

\* listErr: listing the budgets failed; then no results are returned.
CheckPDBStatus(listErr, items) ==
    IF listErr THEN [results |-> EmptyPDBResults, err |-> "failed to list PDBs"]
    ELSE [results |-> PDBLoop(EmptyPDBResults, items), err |-> ""]

PDBScanIdle ==
    /\ pdbScanPc = "idle"
    /\ pdbItems = <<>>
    /\ pdbResults = EmptyPDBResults

CallCheckPDBStatus ==
    /\ pdbScanPc = "idle"
    /\ \E listErr \in BOOLEAN :
       \E items \in (IF listErr THEN {<<>>} ELSE SeqsUpTo(ListedStatusBlocks, MaxPDBs)) :
        LET r == CheckPDBStatus(listErr, items)
        IN  /\ pdbScanPc' = IF r.err # "" THEN "failed" ELSE "done"
            /\ pdbItems' = items
            /\ pdbResults' = r.results
            /\ UNCHANGED <<pdbVars, certVars, utilVars, sgVars, sevVars, s3Vars, ebsVars, estVars, auditVars, costVars, countVars, certScanVars, secRunVars, healthVars>>

(***************************************************************************)
(* pkg/k8s: CheckCertificateExpiry, parseCertificate                       *)
(***************************************************************************)
MaxSecrets == 2

\* Hours from the scan to the certificate's not-after time: expired 30 and
\* 5 hours ago, 5 hours left, just under and exactly 7 days, just under and
\* exactly 30 days, two months.
NotAfterHours == {0 - 30, 0 - 5, 5, 167, 168, 719, 720, 1500}

\* What tls.crt holds: nothing (the key is absent), bytes that are no PEM
\* block, a PEM block of another type, a CERTIFICATE block that is no
\* X.509 certificate, or a certificate.
CrtKinds == {"absent", "not-pem", "private-key", "bad-der", "certificate"}

Secret(type, crt, hours) == [Type |-> type, crt |-> crt, hours |-> hours]

Secrets ==
    {Secret("Opaque", "absent", 0)}
        \cup {Secret("kubernetes.io/tls", k, 0) : k \in CrtKinds \ {"certificate"}}
        \cup {Secret("kubernetes.io/tls", "certificate", h) : h \in NotAfterHours}

\* --expiry-days: the default 30 and the values of the README and the tests.
ExpiryThresholds == {0, 7, 14, 30, 60}

\* (certInfo, error) of parseCertificate on the bytes of tls.crt.
parseCertificate(secret) ==
    IF secret.crt = "not-pem"
    THEN [err |-> "failed to decode PEM block", hours |-> 0]
    ELSE IF secret.crt = "private-key"
    THEN [err |-> "PEM block is not a certificate", hours |-> 0]
    ELSE IF secret.crt = "bad-der"
    THEN [err |-> "failed to parse certificate", hours |-> 0]
    ELSE [err |-> "", hours |-> secret.hours]

\* int(x): the conversion truncates toward zero.
TruncateToInt(num, den) ==
    IF num >= 0 THEN num \div den ELSE 0 - ((0 - num) \div den)

\* int(time.Until(certInfo.ExpiryDate).Hours() / 24)
DaysRemainingOf(hours) == TruncateToInt(hours, 24)

EmptyCertificateResults ==
    [Certificates |-> <<>>, TotalScanned |-> 0, ExpiringCount |-> 0,
     CriticalCount |-> 0, ExpiredCount |-> 0]

\* A mutant: a secret that is skipped is not counted as scanned.
RECURSIVE CertLoopCountsParsedOnly(_, _, _, _)
CertLoopCountsParsedOnly(s, items, i, threshold) ==
    IF i > Len(items) THEN s
    ELSE IF items[i].Type # "kubernetes.io/tls"
    THEN CertLoopCountsParsedOnly(s, items, i + 1, threshold)
    ELSE IF items[i].crt = "absent"
    THEN CertLoopCountsParsedOnly(s, items, i + 1, threshold)
    ELSE LET parsed == parseCertificate(items[i])
             d == DaysRemainingOf(parsed.hours)
             status == getCertificateStatus(d)
         IN  IF parsed.err # ""
             THEN CertLoopCountsParsedOnly(
                      [s EXCEPT !.warnings = Append(@, i)], items, i + 1, threshold)
             ELSE CertLoopCountsParsedOnly(
                      [s EXCEPT
                          !.results.TotalScanned = @ + 1,
                          !.results.ExpiredCount =
                              IF status = "expired" THEN @ + 1 ELSE @,
                          !.results.CriticalCount =
                              IF status = "critical" THEN @ + 1 ELSE @,
                          !.results.ExpiringCount =
                              IF status = "expiring-soon" THEN @ + 1 ELSE @,
                          !.results.Certificates =
                              IF d <= threshold
                              THEN Append(@, [SecretName |-> i, DaysRemaining |-> d,
                                              Status |-> status])
                              ELSE @],
                      items, i + 1, threshold)

\* The loop over secrets.Items from position i on.  s = [results, warnings].
RECURSIVE CertLoop(_, _, _, _)
CertLoop(s, items, i, threshold) ==
    IF i > Len(items) THEN s
    ELSE IF items[i].Type # "kubernetes.io/tls"
    THEN CertLoop(s, items, i + 1, threshold)
    ELSE LET scanned1 == [s EXCEPT !.results.TotalScanned = @ + 1]
             parsed == parseCertificate(items[i])
             d == DaysRemainingOf(parsed.hours)
             status == getCertificateStatus(d)
         IN  IF items[i].crt = "absent"
             THEN CertLoop(scanned1, items, i + 1, threshold)
             ELSE IF parsed.err # ""
             THEN CertLoop([scanned1 EXCEPT !.warnings = Append(@, i)],
                           items, i + 1, threshold)
             ELSE CertLoop(
                      [scanned1 EXCEPT
                          !.results.ExpiredCount =
                              IF status = "expired" THEN @ + 1 ELSE @,
                          !.results.CriticalCount =
                              IF status = "critical" THEN @ + 1 ELSE @,
                          !.results.ExpiringCount =
                              IF status = "expiring-soon" THEN @ + 1 ELSE @,
                          !.results.Certificates =
                              IF d <= threshold
                              THEN Append(@, [SecretName |-> i, DaysRemaining |-> d,
                                              Status |-> status])
                              ELSE @],
                      items, i + 1, threshold)

\* listErr: listing the secrets failed.
CheckCertificateExpiry(listErr, items, threshold) ==
    IF listErr
    THEN [results |-> EmptyCertificateResults, warnings |-> <<>>,
          err |-> "failed to list secrets"]
    ELSE LET s == CertLoop([results |-> EmptyCertificateResults, warnings |-> <<>>],
                           items, 1, threshold)
         IN  [results |-> s.results, warnings |-> s.warnings, err |-> ""]

CertScanIdle ==
    /\ certScanPc = "idle"
    /\ secrets = <<>>
    /\ expiryDays = 30
    /\ certResults = EmptyCertificateResults
    /\ certWarnings = <<>>
    /\ certWebhook = FALSE
    /\ certReported = FALSE
    /\ certAlerted = FALSE

CallCheckCertificateExpiry ==
    /\ certScanPc = "idle"
    /\ \E listErr \in BOOLEAN :
       \E items \in (IF listErr THEN {<<>>} ELSE SeqsUpTo(Secrets, MaxSecrets)) :
       \E threshold \in ExpiryThresholds :
        LET r == CheckCertificateExpiry(listErr, items, threshold)
        IN  /\ certScanPc' = IF r.err # "" THEN "failed" ELSE "done"
            /\ secrets' = items
            /\ expiryDays' = threshold
            /\ certResults' = r.results
            /\ certWarnings' = r.warnings
            /\ UNCHANGED <<certWebhook, certReported, certAlerted>>
            /\ UNCHANGED <<pdbVars, certVars, utilVars, sgVars, sevVars, s3Vars, ebsVars, estVars, auditVars, costVars, countVars, pdbScanVars, secRunVars, healthVars>>

\* The rest of runK8sCerts once CheckCertificateExpiry returned without an
\* error: the list and the summary are displayed, and the Slack alert is
\* sent if a webhook is configured and a certificate is listed.
ReportCertificates ==
    /\ certScanPc = "done"
    /\ ~certReported
    /\ \E webhook \in BOOLEAN :
        /\ certWebhook' = webhook
        /\ certReported' = TRUE
        /\ certAlerted' = (webhook /\ Len(certResults.Certificates) > 0)
    /\ UNCHANGED <<certScanPc, secrets, expiryDays, certResults, certWarnings>>
    /\ UNCHANGED <<pdbVars, certVars, utilVars, sgVars, sevVars, s3Vars, ebsVars, estVars, auditVars, costVars, countVars, pdbScanVars, secRunVars, healthVars>>

(***************************************************************************)
(* cmd/aws.go: runAWSSecurity                                              *)
(***************************************************************************)
MaxCheckFindings == 2

\* What a check returns: an error, or findings given by their severities.
CheckAnswers ==
    {[err |-> TRUE, severities |-> <<>>]} \cup
    {[err |-> FALSE, severities |-> sevs] :
        sevs \in SeqsUpTo(Severities, MaxCheckFindings)}

NoSummary == [printed |-> FALSE, counts |-> [sev \in Severities |-> 0]]

SecIdleRun ==
    [results |-> [PublicS3Buckets |-> <<>>, OpenSecurityGroups |-> <<>>],
     warnings |-> <<>>, summary |-> NoSummary, alerted |-> FALSE, err |-> ""]

\* The run: an error if the auditor cannot be created; else each check's
\* findings are kept or its error is printed as a warning, the summary of
\* CountBySeverity is printed, and the Slack alert is sent if a webhook is
\* configured and there are findings.
runAWSSecurity(auditorErr, buckets, groups, webhook) ==
    IF auditorErr
    THEN [SecIdleRun EXCEPT !.err = "failed to create security auditor"]
    ELSE LET results ==
                 [PublicS3Buckets |->
                     IF buckets.err THEN <<>>
                     ELSE [i \in DOMAIN buckets.severities |->
                              [BucketName |-> i, Severity |-> buckets.severities[i]]],
                  OpenSecurityGroups |->
                     IF groups.err THEN <<>>
                     ELSE [i \in DOMAIN groups.severities |->
                              [GroupID |-> i, Severity |-> groups.severities[i]]]]
             c == CountBySeverity(results)
         IN  [results |-> results,
              warnings |-> (IF buckets.err THEN <<"s3">> ELSE <<>>)
                              \o (IF groups.err THEN <<"sg">> ELSE <<>>),
              summary |-> [printed |-> TRUE, counts |-> c],
              alerted |-> webhook /\ c[SeverityCritical] + c[SeverityHigh]
                                         + c[SeverityMedium] > 0,
              err |-> ""]

NoChecks ==
    [auditorErr |-> FALSE,
     buckets |-> [err |-> FALSE, severities |-> <<>>],
     groups |-> [err |-> FALSE, severities |-> <<>>]]

SecRunIdle ==
    /\ secRunPc = "idle"
    /\ secChecks = NoChecks
    /\ secWebhook = FALSE
    /\ secRun = SecIdleRun

CallRunAWSSecurity ==
    /\ secRunPc = "idle"
    /\ \E auditorErr \in BOOLEAN :
       \E buckets \in (IF auditorErr THEN {NoChecks.buckets} ELSE CheckAnswers) :
       \E groups \in (IF auditorErr THEN {NoChecks.groups} ELSE CheckAnswers) :
       \E webhook \in BOOLEAN :
        LET r == runAWSSecurity(auditorErr, buckets, groups, webhook)
        IN  /\ secRunPc' = IF r.err # "" THEN "failed" ELSE "done"
            /\ secChecks' = [auditorErr |-> auditorErr, buckets |-> buckets,
                             groups |-> groups]
            /\ secWebhook' = webhook
            /\ secRun' = r
            /\ UNCHANGED <<pdbVars, certVars, utilVars, sgVars, sevVars, s3Vars, ebsVars, estVars, auditVars, costVars, countVars, pdbScanVars, certScanVars, healthVars>>

(***************************************************************************)
(* cmd/k8s.go: runK8sHealth                                                *)
(***************************************************************************)
\* The flags after parsing.  --all-namespaces defaults to true, so it is
\* false only when the command line says --all-namespaces=false.
HealthFlags ==
    [namespace : {"", "default", "production"},
     allNamespaces : BOOLEAN,
     checkNodes : BOOLEAN,
     format : {"table", "json", "csv"}]

DefaultHealthFlags ==
    [namespace |-> "", allNamespaces |-> TRUE, checkNodes |-> TRUE,
     format |-> "table"]

HealthFailurePoints == {"", "client", "pods", "deployments", "nodes", "events"}

\* ns := namespace; if allNamespaces { ns = "" }
listedNamespace(flags) == IF flags.allNamespaces THEN "" ELSE flags.namespace

\* The calls made, in order, up to the one that fails, and the error.
runK8sHealth(flags, failure) ==
    LET ns == listedNamespace(flags)
        plan == <<[call |-> "client", ns |-> ""],
                  [call |-> "pods", ns |-> ns],
                  [call |-> "deployments", ns |-> ns]>>
                \o (IF flags.checkNodes THEN <<[call |-> "nodes", ns |-> ""]>>
                    ELSE <<>>)
                \o <<[call |-> "events", ns |-> ns]>>
        failing == {k \in DOMAIN plan : plan[k].call = failure}
        last == IF failing = {} THEN Len(plan)
                ELSE CHOOSE k \in failing : TRUE
        made == SubSeq(plan, 2, last)
    IN  IF failing # {}
        THEN [calls |-> made,
              err |-> CASE failure = "client" -> "failed to create k8s client"
                        [] failure = "pods" -> "failed to check pods"
                        [] failure = "deployments" -> "failed to check deployments"
                        [] failure = "nodes" -> "failed to check nodes"
                        [] OTHER -> "failed to check events"]
        ELSE [calls |-> made,
              err |-> IF flags.format \in {"json", "table"} THEN ""
                      ELSE "failed to render results"]

HealthIdle ==
    /\ healthPc = "idle"
    /\ healthFlags = DefaultHealthFlags
    /\ healthFailure = ""
    /\ healthCalls = <<>>
    /\ healthErr = ""

CallRunK8sHealth ==
    /\ healthPc = "idle"
    /\ \E flags \in HealthFlags :
       \E failure \in HealthFailurePoints :
        LET r == runK8sHealth(flags, failure)
        IN  /\ healthPc' = IF r.err # "" THEN "failed" ELSE "done"
            /\ healthFlags' = flags
            /\ healthFailure' = failure
            /\ healthCalls' = r.calls
            /\ healthErr' = r.err
            /\ UNCHANGED <<pdbVars, certVars, utilVars, sgVars, sevVars, s3Vars, ebsVars, estVars, auditVars, costVars, countVars, pdbScanVars, certScanVars, secRunVars>>

(***************************************************************************)
(* Specifications                                                          *)
(***************************************************************************)
Init == PDBIdle /\ CertIdle /\ UtilIdle /\ SGIdle /\ SevIdle /\ S3Idle
        /\ EBSIdle /\ EstIdle /\ AuditIdle /\ CostIdle
        /\ CountIdle /\ PDBScanIdle /\ CertScanIdle
        /\ SecRunIdle /\ HealthIdle

NextPDB  == AnalyzePDB
NextCert == GetCertificateStatus
NextUtil == CallFindUnderutilizedInstances \/ CallFindUnderutilizedRDS
NextSG   == CallEvaluateSecurityGroupRule
NextS3   == ListBuckets \/ CheckBucket \/ ReturnPublicBuckets
NextSeverity == CallGetPortSeverity \/ ListBuckets \/ CheckBucket \/ ReturnPublicBuckets
NextEBS  == CallFindUnattachedVolumes \/ CallFindOrphanedSnapshots
NextEstimate == CallEstimateEC2Cost \/ CallEstimateRDSCost
                    \/ CallFindUnderutilizedInstances \/ CallFindUnderutilizedRDS

NextAudit == StartAudit \/ ScanRegion \/ CalculateAuditSavings \/ RenderAudit
                \/ AlertAudit
                 \/ ConstructAuditResults \/ CallCalculateSavings

NextCost == GetCostAndUsage \/ CallLimitToTopN

NextCount == ConstructSecurityResults \/ CallCountBySeverity

NextPDBScan == CallCheckPDBStatus

NextCertScan == CallCheckCertificateExpiry \/ ReportCertificates

NextSecRun == CallRunAWSSecurity

NextHealth == CallRunK8sHealth

Next == NextPDB \/ NextCert \/ NextUtil \/ NextSG \/ NextSeverity \/ NextEBS
            \/ NextEstimate \/ NextAudit \/ NextCost
            \/ NextCount \/ NextPDBScan \/ NextCertScan \/ NextSecRun
            \/ NextHealth

Spec     == Init /\ [][Next]_vars
SpecPDB  == Init /\ [][NextPDB]_vars
SpecCert == Init /\ [][NextCert]_vars
SpecUtil == Init /\ [][NextUtil]_vars
SpecSG   == Init /\ [][NextSG]_vars
SpecS3   == Init /\ [][NextS3]_vars
SpecSeverity == Init /\ [][NextSeverity]_vars
SpecEBS  == Init /\ [][NextEBS]_vars
SpecEstimate == Init /\ [][NextEstimate]_vars
SpecAudit == Init /\ [][NextAudit]_vars
SpecCost == Init /\ [][NextCost]_vars
SpecCount == Init /\ [][NextCount]_vars
SpecPDBScan == Init /\ [][NextPDBScan]_vars
SpecCertScan == Init /\ [][NextCertScan]_vars
SpecSecRun == Init /\ [][NextSecRun]_vars
SpecHealth == Init /\ [][NextHealth]_vars

StatusRank(s) ==
    CASE s = "expired" -> 0
      [] s = "critical" -> 1
      [] s = "expiring-soon" -> 2
      [] s = "valid" -> 3

C2_CertificateBands ==
    /\ certCalls >= 1 =>
        /\ certStatus = "expired" <=> daysRemaining < 0
        /\ certStatus = "critical" <=> (0 <= daysRemaining /\ daysRemaining < 7)
        /\ certStatus = "expiring-soon" <=> (7 <= daysRemaining /\ daysRemaining < 30)
        /\ certStatus = "valid" <=> daysRemaining >= 30
    /\ (certCalls = 2 /\ prevDays <= daysRemaining) =>
        StatusRank(prevStatus) <= StatusRank(certStatus)

\* Two calls across a band boundary: 6 then 7.
C2_Witness ==
    /\ certCalls = 2
    /\ prevDays = 6 /\ prevStatus = "critical"
    /\ daysRemaining = 7 /\ certStatus = "expiring-soon"

(***************************************************************************)
(* C3: an instance is reported as underutilized iff its 7-day average CPU  *)
(* a satisfies 0 <= a < T, with T = 5 for compute instances and T = 10 for *)
(* managed databases: a = 0 is reported, a = T is not, and a negative a    *)
(* (the value -1 that stands for a failed or empty metric answer) is not.  *)
(***************************************************************************)
Threshold == IF scanKind = "ec2" THEN 5 ELSE 10

HasData(inst) == ~inst.cpu.err /\ Len(inst.cpu.Datapoints) > 0

\* 0 <= mean < t, for an instance that has datapoints.
MeanWithin(inst, t) ==
    /\ SumSeq(inst.cpu.Datapoints) >= 0
    /\ SumSeq(inst.cpu.Datapoints) < t * Len(inst.cpu.Datapoints)

Reported(i) == \E k \in DOMAIN scanResult.instances : scanResult.instances[k].InstanceID = i

C3_UnderutilizedIffBelowThreshold ==
    (scanKind # "idle" /\ scanResult.err = "") =>
        \A i \in DOMAIN scanned :
            /\ Reported(i) <=> (HasData(scanned[i]) /\ MeanWithin(scanned[i], Threshold))
            /\ ~HasData(scanned[i]) => ~Reported(i)

\* One scan with a = 0 (reported) and a = T (not reported), for each kind.
C3_Witness ==
    /\ scanKind = "rds" /\ scanResult.err = ""
    /\ Len(scanned) = 2
    /\ scanned[1].cpu = [err |-> FALSE, Datapoints |-> <<0>>]
    /\ scanned[2].cpu = [err |-> FALSE, Datapoints |-> <<10>>]
    /\ Reported(1) /\ ~Reported(2)

(***************************************************************************)
(* C4: an instance for which the metric source returns no datapoints is    *)
(* never among the underutilized findings, whatever its type or class, and *)
(* the other instances of the same scan are still classified.              *)
(***************************************************************************)
NoDatapoints(inst) == ~inst.cpu.err /\ inst.cpu.Datapoints = <<>>

C4_NoDataNeverFlagged ==
    (scanKind # "idle" /\ scanResult.err = "") =>
        \A i \in DOMAIN scanned :
            NoDatapoints(scanned[i]) =>
                /\ ~Reported(i)
                /\ \A j \in DOMAIN scanned \ {i} :
                       (HasData(scanned[j]) /\ MeanWithin(scanned[j], Threshold))
                           => Reported(j)

\* An instance without datapoints is followed by one that is flagged.
C4_Witness ==
    /\ scanKind = "ec2" /\ scanResult.err = ""
    /\ Len(scanned) = 2
    /\ NoDatapoints(scanned[1])
    /\ scanned[2].cpu = [err |-> FALSE, Datapoints |-> <<0>>]
    /\ ~Reported(1) /\ Reported(2)

(***************************************************************************)
(* C5: for an ingress rule whose protocol is not "-1",                     *)
(* evaluateSecurityGroupRule returns exactly one finding per pair (public  *)
(* range entry of the rule, risky port p with fromPort <= p <= toPort),    *)
(* the public ranges being the IPv4 and IPv6 entries equal to 0.0.0.0/0 or *)
(* ::/0; nothing is deduplicated across ranges, and the result is empty    *)
(* when fromPort = toPort = 0 or the rule has no public range.             *)
(***************************************************************************)
RiskyPortSet == {22, 3389, 3306, 5432, 27017}
Cidrs == {"0.0.0.0/0", "10.0.0.0/8", "::/0", "fd00::/8"}
PublicCidrs == {"0.0.0.0/0", "::/0"}

\* How many range entries of the rule are the block c.
Entries(c) ==
    Cardinality({k \in DOMAIN ingressRule.IpRanges : ingressRule.IpRanges[k] = c})
    + Cardinality({k \in DOMAIN ingressRule.Ipv6Ranges : ingressRule.Ipv6Ranges[k] = c})

FindingsFor(c, p) ==
    Cardinality({k \in DOMAIN sgFindings :
                    sgFindings[k].Source = c /\ sgFindings[k].Port = p})

PortsInRange ==
    {p \in RiskyPortSet : ingressRule.FromPort <= p /\ p <= ingressRule.ToPort}

FindingsWithinUniverse ==
    \A k \in DOMAIN sgFindings :
        sgFindings[k].Source \in Cidrs /\ sgFindings[k].Port \in RiskyPortSet

C5_OneFindingPerRangeAndPort ==
    (sgPc = "done" /\ ingressRule.IpProtocol # "-1") =>
        /\ FindingsWithinUniverse
        /\ \A c \in Cidrs : \A p \in RiskyPortSet :
               FindingsFor(c, p) =
                   IF c \in PublicCidrs /\ p \in PortsInRange THEN Entries(c) ELSE 0
        /\ (ingressRule.FromPort = 0 /\ ingressRule.ToPort = 0) => sgFindings = <<>>
        /\ (\A c \in PublicCidrs : Entries(c) = 0) => sgFindings = <<>>

\* A TCP rule 22-3389 open to both public blocks: three risky ports (22,
\* 3306, 3389) for each of the two ranges.
C5_Witness ==
    /\ sgPc = "done"
    /\ ingressRule.IpProtocol = "tcp"
    /\ ingressRule.FromPort = 22 /\ ingressRule.ToPort = 3389
    /\ ingressRule.IpRanges = <<"0.0.0.0/0">>
    /\ ingressRule.Ipv6Ranges = <<"::/0">>
    /\ Len(sgFindings) = 6
    /\ FindingsFor("0.0.0.0/0", 22) = 1 /\ FindingsFor("::/0", 22) = 1
    /\ FindingsFor("0.0.0.0/0", 3306) = 1 /\ FindingsFor("::/0", 3389) = 1

(***************************************************************************)
(* C6: for an ingress rule with protocol "-1", evaluateSecurityGroupRule   *)
(* returns, for each public range entry, exactly one finding per port of   *)
(* RiskyPorts (5 per entry), each with protocol label ALL and severity     *)
(* critical, whatever fromPort and toPort are (0-0 included).              *)
(***************************************************************************)
C6_AllTrafficFlagsEveryRiskyPort ==
    (sgPc = "done" /\ ingressRule.IpProtocol = "-1") =>
        /\ FindingsWithinUniverse
        /\ \A c \in Cidrs : \A p \in RiskyPortSet :
               FindingsFor(c, p) = IF c \in PublicCidrs THEN Entries(c) ELSE 0
        /\ Len(sgFindings) = 5 * (Entries("0.0.0.0/0") + Entries("::/0"))
        /\ \A k \in DOMAIN sgFindings :
               sgFindings[k].Protocol = "ALL" /\ sgFindings[k].Severity = "critical"

\* The all-traffic rule of the test: ports 0-0, open to 0.0.0.0/0.
C6_Witness ==
    /\ sgPc = "done"
    /\ ingressRule.IpProtocol = "-1"
    /\ ingressRule.FromPort = 0 /\ ingressRule.ToPort = 0
    /\ ingressRule.IpRanges = <<"0.0.0.0/0">>
    /\ ingressRule.Ipv6Ranges = <<>>
    /\ Len(sgFindings) = 5

(***************************************************************************)
(* C7: a bucket located in the audited region is reported as public iff    *)
(* either the public-access-block configuration was retrieved and at least *)
(* one of its four block flags is disabled, or it could not be retrieved   *)
(* and the bucket ACL grants AllUsers or AuthenticatedUsers; the ACL is    *)
(* never consulted when the block configuration was retrieved.             *)
(***************************************************************************)
\* The bucket the loop visited last, and whether it is among the findings.
LastBucketReported ==
    \E k \in DOMAIN publicBuckets : publicBuckets[k].BucketName = s3Idx

LastBucketInRegion ==
    /\ s3Location.called /\ ~s3Location.err
    /\ \/ s3Location.LocationConstraint = s3Region
       \/ s3Location.LocationConstraint = "" /\ s3Region = "us-east-1"

\* A flag is disabled unless it is set to true; an answer that carries no
\* configuration block has no flag.
SomeFlagDisabled ==
    /\ s3Pab.config.present
    /\ \E f \in {"BlockPublicAcls", "BlockPublicPolicy", "IgnorePublicAcls",
                 "RestrictPublicBuckets"} : s3Pab.config[f] # "true"

AclGrantsPublicGroup ==
    /\ s3Acl.called /\ ~s3Acl.err
    /\ \E k \in DOMAIN s3Acl.Grants :
           s3Acl.Grants[k] \in {AllUsersURI, AuthenticatedUsersURI}

C7_PublicBucketIffBlockOrAcl ==
    (s3Pc = "loop" /\ s3Idx > 0 /\ LastBucketInRegion) =>
        /\ s3Pab.called
        /\ LastBucketReported <=>
               \/ ~s3Pab.err /\ SomeFlagDisabled
               \/ s3Pab.err /\ AclGrantsPublicGroup
        /\ ~s3Pab.err => ~s3Acl.called

\* The second bucket is public by its ACL after the first one was public by
\* its block configuration.
C7_Witness ==
    /\ s3Pc = "loop" /\ s3Idx = 2 /\ LastBucketInRegion
    /\ s3Pab.err /\ AclGrantsPublicGroup
    /\ Len(publicBuckets) = 2
    /\ publicBuckets[1].PublicAccess = "Public Access Block Disabled"
    /\ publicBuckets[2].PublicAccess = "Public ACL"

(***************************************************************************)
(* C8: GetPortSeverity is critical for ports 22, 3389, 3306, 5432 and      *)
(* 27017 and high for every other port, and every public-bucket finding of *)
(* CheckPublicS3Buckets carries severity critical.                         *)
(***************************************************************************)
C8_Severities ==
    /\ sevPc = "done" =>
           sevResult = IF sevPort \in {22, 3389, 3306, 5432, 27017}
                       THEN "critical" ELSE "high"
    /\ \A k \in DOMAIN publicBuckets : publicBuckets[k].Severity = "critical"

\* A database port was rated after a scan that found buckets public for
\* both reasons.
C8_Witness ==
    /\ sevPc = "done" /\ sevPort = 27017 /\ sevResult = "critical"
    /\ s3Pc = "done"
    /\ \E k \in DOMAIN publicBuckets : publicBuckets[k].PublicAccess = "Public ACL"
    /\ \E k \in DOMAIN publicBuckets :
           publicBuckets[k].PublicAccess = "Public Access Block Disabled"

(***************************************************************************)
(* C9: FindOrphanedSnapshots reports a snapshot iff its source-volume id   *)
(* is not among the ids of the volumes listed in the same call (so a       *)
(* snapshot with an absent or empty source-volume id is reported); each    *)
(* reported snapshot costs size in GB x 0.05, and a snapshot whose source  *)
(* volume is listed is never reported.                                     *)
(***************************************************************************)
SnapshotReported(i) ==
    \E k \in DOMAIN ebsResult.items : ebsResult.items[k].SnapshotID = i

SourceListed(snap) ==
    \E k \in DOMAIN ebsVolumes : snap.VolumeId = ebsVolumes[k]

C9_OrphanedSnapshots ==
    (ebsOp = "snapshots" /\ ebsResult.err = "") =>
        /\ \A i \in DOMAIN ebsSnapshots :
               /\ SnapshotReported(i) <=> ~SourceListed(ebsSnapshots[i])
               /\ ebsSnapshots[i].VolumeId \in {"nil", ""} => SnapshotReported(i)
        /\ \A k \in DOMAIN ebsResult.items :
               /\ ebsResult.items[k].SnapshotID \in DOMAIN ebsSnapshots
               /\ ebsResult.items[k].MonthlyCost
                      = ebsSnapshots[ebsResult.items[k].SnapshotID].VolumeSize * 50

\* A snapshot without a source id is reported, one of a live volume is not.
C9_Witness ==
    /\ ebsOp = "snapshots" /\ ebsResult.err = ""
    /\ Len(ebsSnapshots) = 2
    /\ ebsSnapshots[1] = [VolumeId |-> "nil", VolumeSize |-> 100]
    /\ ebsSnapshots[2].VolumeId = "vol-1"
    /\ ebsVolumes = <<"vol-1">>
    /\ Len(ebsResult.items) = 1
    /\ ebsResult.items[1].SnapshotID = 1 /\ ebsResult.items[1].MonthlyCost = 5000

(***************************************************************************)
(* C10: FindUnattachedVolumes reports every volume returned in state       *)
(* available, without any further condition, at size in GB x the rate of   *)
(* its type, and the rates are ordered io1, io2 > gp2, gp3 > st1 > sc1;    *)
(* gp3 100 GB -> 8.0, gp2 50 GB -> 5.0, io1 200 GB -> 25.0, st1 1000 GB -> *)
(* 45.0.                                                                   *)
(***************************************************************************)
AvailableIds == {i \in DOMAIN ebsVolumes : ebsVolumes[i].State = "available"}

RateClass(volumeType) ==
    CASE volumeType \in {"io1", "io2"} -> 4
      [] volumeType \in {"gp2", "gp3"} -> 3
      [] volumeType = "st1" -> 2
      [] volumeType = "sc1" -> 1
      [] OTHER -> 0

C10_UnattachedVolumes ==
    (ebsOp = "volumes" /\ ebsResult.err = "") =>
        LET items == ebsResult.items
        IN  /\ Len(items) = Cardinality(AvailableIds)
            /\ {items[k].VolumeID : k \in DOMAIN items} = AvailableIds
            /\ \A k \in DOMAIN items :
                 LET v == items[k]
                 IN  /\ v.Size = ebsVolumes[v.VolumeID].Size
                     /\ v.VolumeType = ebsVolumes[v.VolumeID].VolumeType
                     /\ (v.VolumeType = "gp3" /\ v.Size = 100) => v.MonthlyCost = 8000
                     /\ (v.VolumeType = "gp2" /\ v.Size = 50) => v.MonthlyCost = 5000
                     /\ (v.VolumeType = "io1" /\ v.Size = 200) => v.MonthlyCost = 25000
                     /\ (v.VolumeType = "st1" /\ v.Size = 1000) => v.MonthlyCost = 45000
            \* one rate per type: the cost is proportional to the size
            /\ \A k, l \in DOMAIN items :
                 items[k].VolumeType = items[l].VolumeType =>
                     items[k].MonthlyCost * items[l].Size
                         = items[l].MonthlyCost * items[k].Size
            \* and the rates are ordered by class
            /\ \A k, l \in DOMAIN items :
                 (/\ items[k].Size = items[l].Size /\ items[k].Size > 0
                  /\ RateClass(items[k].VolumeType) > RateClass(items[l].VolumeType)
                  /\ RateClass(items[l].VolumeType) > 0)
                     => items[k].MonthlyCost > items[l].MonthlyCost

\* Two unattached volumes of the claim's examples.
C10_Witness ==
    /\ ebsOp = "volumes" /\ ebsResult.err = ""
    /\ Len(ebsVolumes) = 2
    /\ ebsVolumes[1] = [Size |-> 100, VolumeType |-> "gp3", State |-> "available"]
    /\ ebsVolumes[2] = [Size |-> 200, VolumeType |-> "io1", State |-> "available"]
    /\ Len(ebsResult.items) = 2
    /\ ebsResult.items[1].MonthlyCost = 8000
    /\ ebsResult.items[2].MonthlyCost = 25000

(***************************************************************************)
(* C11: estimateEC2Cost and estimateRDSCost are total: for a key of the    *)
(* price table they return its table price, for every other key the        *)
(* default 100.00; an underutilized instance of unrecognized type or class *)
(* is still reported as a finding, with the fallback cost.                 *)
(***************************************************************************)
\* The price tables as the source writes them, (key, thousandths of a dollar).
EC2PriceList ==
    {<<"t2.micro", 10000>>, <<"t2.small", 20000>>, <<"t2.medium", 40000>>,
     <<"t3.micro", 9000>>, <<"t3.small", 18000>>, <<"t3.medium", 36000>>,
     <<"m5.large", 88000>>, <<"m5.xlarge", 176000>>}
RDSPriceList ==
    {<<"db.t3.micro", 15000>>, <<"db.t3.small", 30000>>, <<"db.m5.large", 145000>>}

\* cost is the table price of key, or the default when the table lacks key.
PricedBy(list, key, cost) ==
    IF \E e \in list : e[1] = key
    THEN <<key, cost>> \in list
    ELSE cost = 100000

ScanPriceList == IF scanKind = "ec2" THEN EC2PriceList ELSE RDSPriceList

ScannedKey(i) ==
    IF scanKind = "ec2" THEN scanned[i].InstanceType ELSE scanned[i].DBInstanceClass

C11_EstimatorsTotal ==
    /\ estPc = "done" =>
           PricedBy(IF estFn = "ec2" THEN EC2PriceList ELSE RDSPriceList,
                    estKey, estCost)
    /\ (scanKind # "idle" /\ scanResult.err = "") =>
           \A i \in DOMAIN scanned :
               (HasData(scanned[i]) /\ MeanWithin(scanned[i], Threshold)) =>
                   \E k \in DOMAIN scanResult.instances :
                       /\ scanResult.instances[k].InstanceID = i
                       /\ PricedBy(ScanPriceList, ScannedKey(i),
                                   scanResult.instances[k].MonthlyCost)

\* An idle instance of a type the table lacks is reported at 100.00.
C11_Witness ==
    /\ scanKind = "ec2" /\ scanResult.err = ""
    /\ Len(scanned) = 1
    /\ scanned[1].InstanceType = "z9.unlisted"
    /\ scanned[1].cpu = [err |-> FALSE, Datapoints |-> <<0>>]
    /\ Len(scanResult.instances) = 1
    /\ scanResult.instances[1].MonthlyCost = 100000

(***************************************************************************)
(* C12: after CalculateSavings, TotalPotentialSavings equals the sum of    *)
(* MonthlyCost over all unattached volumes, underutilized compute          *)
(* instances, underutilized database instances, orphaned snapshots and     *)
(* unused Elastic IPs held in the result, whatever value the field had     *)
(* before the call (calling it twice gives the same total as once).        *)
(***************************************************************************)
RECURSIVE CostOf(_)
CostOf(list) == IF list = <<>> THEN 0 ELSE Head(list).MonthlyCost + CostOf(Tail(list))

HeldCost(r) ==
    CostOf(r.UnattachedVolumes) + CostOf(r.UnderutilizedInstances)
        + CostOf(r.UnderutilizedRDSInstances) + CostOf(r.OrphanedSnapshots)
        + CostOf(r.UnusedElasticIPs)

C12_SavingsIsSumOfCosts ==
    calcCalls >= 1 => allResults.TotalPotentialSavings = HeldCost(allResults)

\* The literal of the package's test, with the field preset, after two calls:
\* 8 + 5 + 9 + 15 + 30 + 5 + 3.60 + 3.60 = 79.20.
C12_Witness ==
    /\ auditPc = "built" /\ calcCalls = 2
    /\ \A f \in DOMAIN LiteralFindings : allResults[f] = LiteralFindings[f]
    /\ allResults.TotalPotentialSavings = 79200

(***************************************************************************)
(* C13: for any two regions A and B with fixed per-region findings, the    *)
(* audit over [A, B] and over [B, A] yields the same TotalPotentialSavings *)
(* and the same number of findings of each resource kind.                  *)
(***************************************************************************)
Reverse(s) == [i \in 1..Len(s) |-> s[Len(s) + 1 - i]]

FindingKinds ==
    {"UnattachedVolumes", "UnderutilizedInstances", "UnderutilizedRDSInstances",
     "OrphanedSnapshots", "UnusedElasticIPs"}

\* The aggregate of this run's regions, flags and answers, scanned in the
\* opposite order.
ReversedRun ==
    LET s == scanRegions(EmptyAuditResults, Reverse(auditRegions), auditWorld,
                         auditInclude, 1)
    IN  [res |-> CalculateSavings(s.res), err |-> s.err]

Amounts(items) == [i \in DOMAIN items |-> items[i].Amount]

DroppedSum == SumSeq(Amounts(SubSeq(itemsBefore, topN + 1, Len(itemsBefore))))

ExampleAmounts == <<50000, 30000, 20000, 10000, 5000>>

C14_TopNWithOther ==
    (costPc = "limited" /\ limitCalls = 1) =>
        LET items == costResults.Items
        IN  /\ SortedDescending(itemsBefore)
            /\ Len(itemsBefore) > topN =>
                  /\ SubSeq(items, 1, topN) = SubSeq(itemsBefore, 1, topN)
                  /\ IF DroppedSum > 0
                     THEN /\ Len(items) = topN + 1
                          /\ items[topN + 1].Name = "Other"
                          /\ items[topN + 1].Amount = DroppedSum
                     ELSE Len(items) = topN
            /\ Len(itemsBefore) <= topN =>
                  /\ items = itemsBefore
                  /\ \A i \in DOMAIN items : items[i].Name # "Other"
            /\ (Amounts(itemsBefore) = ExampleAmounts /\ topN = 3) =>
                  Amounts(items) = <<50000, 30000, 20000, 15000>>
            /\ (Amounts(itemsBefore) = ExampleAmounts /\ topN = 10) =>
                  Amounts(items) = ExampleAmounts

\* The example: top 3 of [50, 30, 20, 10, 5].
C14_Witness ==
    /\ costPc = "limited" /\ limitCalls = 1
    /\ Amounts(itemsBefore) = ExampleAmounts
    /\ topN = 3
    /\ Len(costResults.Items) = 4
    /\ costResults.Items[4].Name = "Other"
    /\ costResults.Items[4].Amount = 15000

(***************************************************************************)
(* C15: in every CostResults returned by GetCostAndUsage, and after any    *)
(* later call of LimitToTopN(n) on it, TotalCost equals the sum of the     *)
(* amounts of Items, for every input of per-day grouped amounts (zero and  *)
(* negative amounts such as credits included).                             *)
(***************************************************************************)
C15_TotalCostIsSumOfItems ==
    costPc \in {"fetched", "limited"} =>
        costResults.TotalCost = SumSeq(Amounts(costResults.Items))

(***************************************************************************)
(* C16: CountBySeverity returns, for each of critical, high and medium,    *)
(* the number of public-bucket and open-security-group findings carrying   *)
(* that severity (0 when there are none), and the three counts sum to      *)
(* len(PublicS3Buckets) + len(OpenSecurityGroups).                         *)
(***************************************************************************)
Carrying(list, sev) == Cardinality({i \in DOMAIN list : list[i].Severity = sev})

C16_CountsBySeverity ==
    countPc = "counted" =>
        /\ \A sev \in {"critical", "high", "medium"} :
              /\ sev \in DOMAIN counts
              /\ counts[sev] = Carrying(secResults.PublicS3Buckets, sev)
                                 + Carrying(secResults.OpenSecurityGroups, sev)
        /\ counts["critical"] + counts["high"] + counts["medium"]
              = Len(secResults.PublicS3Buckets) + Len(secResults.OpenSecurityGroups)

\* The findings of the package's test: 3 critical, 2 high, 1 medium.
C16_Witness ==
    /\ countPc = "counted"
    /\ Len(secResults.PublicS3Buckets) = 2
    /\ Len(secResults.OpenSecurityGroups) = 4
    /\ counts["critical"] = 3 /\ counts["high"] = 2 /\ counts["medium"] = 1

(***************************************************************************)
(* C17: after CheckPDBStatus over any list of disruption budgets,          *)
(* HealthyCount + AtRiskCount + CriticalCount + NoPodsCount = TotalScanned *)
(* = the number of entries of PDBs = the number of budgets listed, and     *)
(* each count equals the number of entries of PDBs with that status.       *)
(***************************************************************************)
WithStatus(status) ==
    Cardinality({i \in DOMAIN pdbResults.PDBs : pdbResults.PDBs[i].Status = status})

C17_PDBCounts ==
    pdbScanPc = "done" =>
        /\ pdbResults.HealthyCount + pdbResults.AtRiskCount
              + pdbResults.CriticalCount + pdbResults.NoPodsCount
              = pdbResults.TotalScanned
        /\ pdbResults.TotalScanned = Len(pdbResults.PDBs)
        /\ Len(pdbResults.PDBs) = Len(pdbItems)
        /\ pdbResults.HealthyCount = WithStatus("healthy")
        /\ pdbResults.AtRiskCount = WithStatus("at-risk")
        /\ pdbResults.CriticalCount = WithStatus("critical")
        /\ pdbResults.NoPodsCount = WithStatus("no-pods")

\* Three budgets: one without pods, one critical, one healthy.
C17_Witness ==
    /\ pdbScanPc = "done"
    /\ pdbResults.TotalScanned = 3
    /\ pdbResults.NoPodsCount = 1
    /\ pdbResults.CriticalCount = 1
    /\ pdbResults.HealthyCount = 1
    /\ pdbResults.AtRiskCount = 0

(***************************************************************************)
(* Claims about CheckCertificateExpiry                                     *)
(***************************************************************************)
Listed(status) ==
    Cardinality({k \in 1..Len(certResults.Certificates) :
                    certResults.Certificates[k].Status = status})

\* C18: after CheckCertificateExpiry, whatever the threshold expiryDays,
\* ExpiredCount, CriticalCount and ExpiringCount are the numbers of
\* certificates in the returned Certificates list with the status
\* "expired", "critical" and "expiring-soon".
C18_CountsMatchListed ==
    certScanPc = "done" =>
        /\ certResults.ExpiredCount = Listed("expired")
        /\ certResults.CriticalCount = Listed("critical")
        /\ certResults.ExpiringCount = Listed("expiring-soon")

TLSSecrets == {i \in 1..Len(secrets) : secrets[i].Type = "kubernetes.io/tls"}

Skipped == {i \in TLSSecrets : secrets[i].crt # "certificate"}

Warned == {certWarnings[k] : k \in 1..Len(certWarnings)}

\* The certificates that TLS secrets with a readable certificate within
\* the threshold give, in the order of the secrets.
IsListed(i) ==
    \E k \in 1..Len(certResults.Certificates) :
        /\ certResults.Certificates[k].SecretName = i
        /\ certResults.Certificates[k].DaysRemaining = DaysRemainingOf(secrets[i].hours)
        /\ certResults.Certificates[k].Status =
               getCertificateStatus(DaysRemainingOf(secrets[i].hours))

SkippingIsHarmless ==
    /\ certScanPc = "done"
    /\ certResults.TotalScanned = Cardinality(TLSSecrets)
    /\ \A j \in TLSSecrets \ Skipped :
           DaysRemainingOf(secrets[j].hours) <= expiryDays => IsListed(j)
    /\ certResults.ExpiredCount + certResults.CriticalCount
           + certResults.ExpiringCount
         = Cardinality({j \in TLSSecrets \ Skipped :
               getCertificateStatus(DaysRemainingOf(secrets[j].hours)) # "valid"})

MetricFailed(inst) == inst.cpu.err

Warnings == {scanResult.warnings[k] : k \in 1..Len(scanResult.warnings)}

RegionsFetched ==
    {k \in 1..auditIdx : auditWorld[auditRegions[k]].failure # "auditor"}

\* C21: an unsupported output format is surfaced as an error before any
\* region is processed: in a run with an unknown format no record-source
\* or metric-source call is ever made.
C21_UnknownFormatFailsFirst ==
    outputFormat \notin SupportedFormats => RegionsFetched = {}


\* The auditor of the k-th region of the list cannot be created, or the
\* listing call of a classifier that is enabled fails there.
RegionFails(k) ==
    LET failure == auditWorld[auditRegions[k]].failure
    IN  \/ failure = "auditor"
        \/ failure = "volumes" /\ auditInclude.ebs
        \/ failure = "instances" /\ auditInclude.ec2
        \/ failure \in {"snapshots", "snapshot-volumes"} /\ auditInclude.snapshots
        \/ failure = "addresses" /\ auditInclude.eips
        \/ failure = "rds" /\ auditInclude.rds

C23_TotalFailureAborts ==
    (secRunPc # "idle" /\ secChecks.buckets.err /\ secChecks.groups.err) =>
        /\ secRunPc = "failed"
        /\ secRun.err # ""
        /\ ~secRun.summary.printed

(***************************************************************************)
(* Claims about determinism                                                *)
(***************************************************************************)
\* C24: classification is deterministic: evaluating the same rule again,
\* whatever order the map of risky ports is iterated in, returns the same
\* findings in the same order as the evaluation that was made.
C24_SameRuleSameFindings ==
    sgPc = "done" =>
        \A orders \in [1..Len(PublicRanges(ingressRule)) -> MapIterationOrders] :
            evaluateSecurityGroupRule(ingressRule, "sg-123", "test-sg", orders)
                = sgFindings

(***************************************************************************)
(* Claims about the documented status types                                *)
(***************************************************************************)
\* C25: analyzePDB reports "no-pods" only for a budget without matching
\* pods (ExpectedPods = 0); a budget with a matching pod is reported
\* "healthy", "at-risk" or "critical", and one with zero disruptions
\* allowed and fewer healthy pods than desired is reported "critical".
C25_NoPodsOnlyWithoutPods ==
    pdbPc = "done" =>
        /\ pdbInfo.Status = "no-pods" => pdb.ExpectedPods = 0
        /\ pdb.ExpectedPods > 0 =>
               pdbInfo.Status \in {"healthy", "at-risk", "critical"}
        /\ (pdb.ExpectedPods > 0 /\ pdb.DisruptionsAllowed = 0
                /\ pdb.CurrentHealthy < pdb.DesiredHealthy) =>
               pdbInfo.Status = "critical"

(***************************************************************************)
(* Claims about the namespace of the health check                          *)
(***************************************************************************)
\* C26: the health check run with --namespace X and no other flag checks
\* namespace X only: the pod, deployment and warning-event listings it
\* requests are for namespace X.
C26_NamespaceFlagRestricts ==
    (/\ healthPc # "idle"
     /\ healthFlags.namespace # ""
     /\ healthFlags.allNamespaces = DefaultHealthFlags.allNamespaces
     /\ healthFlags.checkNodes = DefaultHealthFlags.checkNodes
     /\ healthFlags.format = DefaultHealthFlags.format) =>
        \A k \in DOMAIN healthCalls :
            healthCalls[k].call \in {"pods", "deployments", "events"} =>
                healthCalls[k].ns = healthFlags.namespace

(***************************************************************************)
(* Claims about the lifecycle of the aggregate                             *)
(***************************************************************************)
IsPrefixOf(s, t) == Len(s) <= Len(t) /\ SubSeq(t, 1, Len(s)) = s

\* C27: while the regions are scanned and the savings calculated, every
\* finding list of the aggregate only grows at its end; once
\* CalculateSavings has returned, the report and the Slack alert change
\* neither the lists nor TotalPotentialSavings.
C27_PopulateThenFreeze ==
    [][/\ auditPc = "loop" =>
            \A f \in FindingKinds : IsPrefixOf(allResults[f], allResults'[f])
       /\ auditPc \in {"calculated", "rendered"} => allResults' = allResults]_vars

\* Two regions added findings one after the other, the report was rendered
\* and the alert sent.
C27_Witness ==
    /\ auditPc = "done"
    /\ auditIdx = 2
    /\ auditWorld[auditRegions[1]].records = BusyRegion
    /\ auditWorld[auditRegions[2]].records = StorageRegion
    /\ Len(allResults.UnattachedVolumes) = 1
    /\ Len(allResults.OrphanedSnapshots) = 2
    /\ outputFormat = "table"
    /\ auditRendered /\ auditAlerted

(***************************************************************************)
(* Claims about the certificates listed                                    *)
(***************************************************************************)
\* The hours from the scan to the not-after time of the k-th certificate
\* listed.
ListedHours(k) == secrets[certResults.Certificates[k].SecretName].hours

\* C28: CheckCertificateExpiry gives the status "expired" to every
\* certificate whose not-after time is before the scan, however recently it
\* expired, and to no certificate whose not-after time is after the scan.
C28_ExpiredIffPastNotAfter ==
    certScanPc = "done" =>
        \A k \in 1..Len(certResults.Certificates) :
            /\ ListedHours(k) < 0 => certResults.Certificates[k].Status = "expired"
            /\ ListedHours(k) > 0 => certResults.Certificates[k].Status # "expired"


\* A TLS secret whose certificate was read.
Parsed == TLSSecrets \ Skipped

\* C29: a certificate is listed if and only if its days remaining are at
\* most expiryDays, and with the default threshold of 30 days every listed
\* certificate is "expired", "critical" or "expiring-soon": no "valid"
\* certificate is listed, and none causes a Slack alert.
C29_DefaultListsNoValid ==
    certScanPc = "done" =>
        /\ \A i \in Parsed :
               (\E k \in 1..Len(certResults.Certificates) :
                    certResults.Certificates[k].SecretName = i)
                   <=> DaysRemainingOf(secrets[i].hours) <= expiryDays
        /\ expiryDays = 30 =>
               /\ \A k \in 1..Len(certResults.Certificates) :
                      certResults.Certificates[k].Status
                          \in {"expired", "critical", "expiring-soon"}
               /\ certAlerted =>
                      \E k \in 1..Len(certResults.Certificates) :
                          certResults.Certificates[k].Status # "valid"

(***************************************************************************)
(* Claims about the region list                                            *)
(***************************************************************************)
\* C30: in one audit run every region is scanned at most once, so no
\* resource is added to the aggregate twice, whatever the --regions list,
\* including lists that repeat a region or hold empty or padded entries.
C30_RegionScannedOnce ==
    \A i, j \in 1..auditIdx : i # j => auditRegions[i] # auditRegions[j]

=============================================================================
